---- MODULE Spec2Model ----
(***************************************************************************)
(* Model of lemmego/db: the Transaction Coordinator (Connection.BeginTx /  *)
(* Commit / Rollback, QueryBuilder.Begin / Transaction and the statement   *)
(* routing of Exec / Fetch / Scan / ScanAll), the statement compiler       *)
(* (QueryBuilder.Build), the table alias map (resolveTableAlias), the      *)
(* pagination layer (Page / Cursor), the relation loader (Get /            *)
(* loadRelation) and the connection registry (DatabaseManager).            *)
(***************************************************************************)
EXTENDS Integers, Sequences, FiniteSets, TLC

(***************************************************************************)
(* Bounds of the model.                                                    *)
(***************************************************************************)
NumKeys == 2
NumVals == 2
MaxOpenTx == 2
MaxTables == 3
MaxOps == 4
MaxBuilds == 2
IntBits == 8
MaxRows == 5
MaxCalls == 1
MaxIncludes == 2
NumConns == 2
NumCallers == 2

(***************************************************************************)
(* Values.                                                                 *)
(***************************************************************************)
Nil == "nil"
NoTx == 0
NoRow == 0
NoPanic == "no panic"
Pending == "pending"
ErrAlreadyInTx == "already in a transaction"
ErrNotInTx == "not in a transaction"
ErrDriver == "driver error"
ErrNoRows == "sql: no rows in result set"
FnErrs == {"intentional error", ErrAlreadyInTx}
Panics == {"intentional panic", "interface conversion"}
Keys == 1..NumKeys
Vals == 1..NumVals
TxIds == 1..MaxOpenTx
Stmts == [op : {"insert", "update"}, k : Keys, v : Vals]
EmptyTable == [k \in Keys |-> NoRow]

VARIABLES
    tx,         \* Connection.tx: NoTx (nil), or the open *sqlx.Tx
    table,      \* rows the database holds outside any transaction
    txRows,     \* the transactions open on the database handle -> the rows each one sees
    pc,         \* caller of Transaction: "idle", "fn" (inside the callback), "done"
    began,      \* whether Begin succeeded in the current / last Transaction call
    fnOut,      \* how fn ended: [kind |-> "return" | "panic", val |-> ...]
    ret,        \* the error Transaction returned (Nil for a nil error)
    panicOut,   \* the panic value that left Transaction (NoPanic if none)
    finisher,   \* what the deferred function invoked, in order: [op, err, tx]
    snapshot,   \* rows at the time Begin succeeded
    fnExpect,   \* the rows at Begin with the statements fn executed applied in order
    lastOp,     \* the last operation performed on the connection and its outcome
    aliasMap,   \* QueryBuilder.tableAliasMap: table name -> alias
    lastCall,   \* the last resolveTableAlias call: its argument, result and the map before
    allFresh,   \* whether every resolveTableAlias call so far named a table not yet in the map
    qb,         \* a QueryBuilder: its fields and the state of its sqlbuilder builder
    built,      \* the results of the Build calls made since the QueryBuilder was last changed
    ops,        \* number of composing calls made on the QueryBuilder
    lastWhere,  \* the combinator the last composing call compiled for Where, if it did
    nrows,      \* the users table of the pagination tests: rows with ids 1..nrows
    sel,        \* the SELECT statement of a query: where, orderBy, limit, offset
    calls,      \* the Page / Cursor calls made on the statement, in order
    fetched,    \* what ScanAll returned for the statement: [done, ids]
    relDb,      \* the users, posts and comments tables of the relation tests
    heap,       \* the row maps (map[string]interface{}) allocated by Fetch, by reference
    results,    \* Get's results slice: references of the root rows
    work,       \* the loadRelation calls still to run, innermost first
    queries,    \* the child queries issued by the current Get, in order
    relPc,      \* "idle", "loading" (inside Get), "returned" or "panicked"
    returned,   \* the rows Get returned to its caller: [given, rows]
    getArgs,    \* the arguments of the current Get: [rootCols, includes]
    connections, \* DatabaseManager.connections: name -> connection
    closed,     \* the connections whose handle was closed
    lastDM,     \* the last DatabaseManager call and its outcome
    mutex,      \* DatabaseManager.mutex: [writer, readers, pending]
    callers,    \* the goroutines calling the DatabaseManager: where each one is
    fatal,      \* whether the runtime stopped the program (concurrent map access)
    workers,    \* the goroutines using one Connection: where each one is
    txOwner,    \* the goroutine whose BeginTx opened each open transaction
    lastExec,   \* the last statement a goroutine executed, and on which handle
    undone      \* whether a rollback discarded a statement of another goroutine

varsTx == <<tx, table, txRows, pc, began, fnOut, ret, panicOut, finisher,
            snapshot, fnExpect, lastOp>>

varsAlias == <<aliasMap, lastCall, allFresh>>

varsBuild == <<qb, built, ops, lastWhere>>

varsPaginate == <<nrows, sel, calls, fetched>>

varsRel == <<relDb, heap, results, work, queries, relPc, returned, getArgs>>

varsDM == <<connections, closed, lastDM>>

varsConc == <<mutex, callers, fatal>>

varsTxConc == <<workers, txOwner, lastExec, undone>>

vars == <<varsTx, varsAlias, varsBuild, varsPaginate, varsRel, varsDM, varsConc,
          varsTxConc>>

(***************************************************************************)
(* The database handle: a statement applied to a set of rows.              *)
(***************************************************************************)
Valid(t, s) ==
    IF s.op = "insert" THEN t[s.k] = NoRow ELSE TRUE

Apply(t, s) ==
    IF s.op = "insert"
    THEN IF t[s.k] = NoRow THEN [t EXCEPT ![s.k] = s.v] ELSE t
    ELSE IF t[s.k] # NoRow THEN [t EXCEPT ![s.k] = s.v] ELSE t

Without(f, id) == [i \in DOMAIN f \ {id} |-> f[i]]

FreeTxIds(w) == TxIds \ DOMAIN w

NewTxId(w) == CHOOSE i \in FreeTxIds(w) : \A j \in FreeTxIds(w) : i <= j

\* sqlx.DB.BeginTxx: opens a transaction on the handle; it sees the rows t
DbBegin(w, id, t) == [i \in DOMAIN w \cup {id} |-> IF i = id THEN t ELSE w[i]]

\* sqlx.Tx.Commit / Rollback: the transaction is over on the handle either way
DbEnd(w, id) == Without(w, id)

FirstRow(t) ==
    IF \A k \in Keys : t[k] = NoRow
    THEN EmptyTable
    ELSE LET k0 == CHOOSE k \in Keys : t[k] # NoRow /\ \A j \in Keys : t[j] # NoRow => k <= j
         IN  [k \in Keys |-> IF k = k0 THEN t[k] ELSE NoRow]

(***************************************************************************)
(* Connection (connection.go).                                             *)
(***************************************************************************)
InTransaction(c_tx) == c_tx # NoTx

\* BeginTx without the check of c.tx
BeginTxNoGuard(c_tx, dbOk, newId) ==
    IF ~dbOk
    THEN [tx |-> c_tx, err |-> ErrDriver, opened |-> NoTx]
    ELSE [tx |-> newId, err |-> Nil, opened |-> newId]

BeginTx(c_tx, dbOk, newId) ==
    IF c_tx # NoTx
    THEN [tx |-> c_tx, err |-> ErrAlreadyInTx, opened |-> NoTx]
    ELSE IF ~dbOk
         THEN [tx |-> c_tx, err |-> ErrDriver, opened |-> NoTx]
         ELSE [tx |-> newId, err |-> Nil, opened |-> newId]

\* Commit that clears c.tx only when the commit succeeded
CommitKeepsTxOnError(c_tx, dbOk) ==
    IF c_tx = NoTx
    THEN [tx |-> NoTx, err |-> ErrNotInTx, ended |-> NoTx, applied |-> FALSE]
    ELSE [tx |-> IF dbOk THEN NoTx ELSE c_tx, err |-> IF dbOk THEN Nil ELSE ErrDriver,
          ended |-> c_tx, applied |-> dbOk]

Commit(c_tx, dbOk) ==
    IF c_tx = NoTx
    THEN [tx |-> NoTx, err |-> ErrNotInTx, ended |-> NoTx, applied |-> FALSE]
    ELSE [tx |-> NoTx, err |-> IF dbOk THEN Nil ELSE ErrDriver,
          ended |-> c_tx, applied |-> dbOk]

\* Rollback that ends the transaction with tx.Commit()
RollbackCommits(c_tx, dbOk) ==
    IF c_tx = NoTx
    THEN [tx |-> NoTx, err |-> ErrNotInTx, ended |-> NoTx, applied |-> FALSE]
    ELSE [tx |-> NoTx, err |-> IF dbOk THEN Nil ELSE ErrDriver,
          ended |-> c_tx, applied |-> dbOk]

Rollback(c_tx, dbOk) ==
    IF c_tx = NoTx
    THEN [tx |-> NoTx, err |-> ErrNotInTx, ended |-> NoTx, applied |-> FALSE]
    ELSE [tx |-> NoTx, err |-> IF dbOk THEN Nil ELSE ErrDriver,
          ended |-> c_tx, applied |-> FALSE]

(***************************************************************************)
(* Statement routing of Exec / Fetch / Scan / ScanAll.                     *)
(***************************************************************************)
\* routing that ignores the transaction
RouteAmbient(c_tx) == "db"

Route(c_tx) == IF InTransaction(c_tx) THEN "tx" ELSE "db"

View(handle) == IF handle = "tx" THEN txRows[tx] ELSE table

(***************************************************************************)
(* The deferred function of Transaction.                                   *)
(***************************************************************************)
\* deferred function without the error branch
DeferredCommitsOnError(p, txErr, c_tx, dbOk) ==
    IF p # NoPanic
    THEN [op |-> "rollback", r |-> Rollback(c_tx, dbOk), repanic |-> p]
    ELSE [op |-> "commit", r |-> Commit(c_tx, dbOk), repanic |-> NoPanic]

\* deferred function that recovers the panic and does not raise it again
DeferredSwallowsPanic(p, txErr, c_tx, dbOk) ==
    IF p # NoPanic
    THEN [op |-> "rollback", r |-> Rollback(c_tx, dbOk), repanic |-> NoPanic]
    ELSE IF txErr # Nil
         THEN [op |-> "rollback", r |-> Rollback(c_tx, dbOk), repanic |-> NoPanic]
         ELSE [op |-> "commit", r |-> Commit(c_tx, dbOk), repanic |-> NoPanic]

Deferred(p, txErr, c_tx, dbOk) ==
    IF p # NoPanic
    THEN [op |-> "rollback", r |-> Rollback(c_tx, dbOk), repanic |-> p]
    ELSE IF txErr # Nil
         THEN [op |-> "rollback", r |-> Rollback(c_tx, dbOk), repanic |-> NoPanic]
         ELSE [op |-> "commit", r |-> Commit(c_tx, dbOk), repanic |-> NoPanic]

\* the result of Transaction: `return txErr` copies txErr into the (unnamed)
\* result before the deferred function runs; d is what the deferred function did
Returned(txErr, d) == txErr

Op(name, handle, err, rows) ==
    [op |-> name, handle |-> handle, active |-> InTransaction(tx),
     err |-> err, rows |-> rows]

(***************************************************************************)
(* Strings are sequences of one-character strings.                         *)
(***************************************************************************)
UpperCase == <<"A", "B", "C", "D", "E", "F", "G", "H", "I", "J", "K", "L", "M",
               "N", "O", "P", "Q", "R", "S", "T", "U", "V", "W", "X", "Y", "Z">>
LowerCase == <<"a", "b", "c", "d", "e", "f", "g", "h", "i", "j", "k", "l", "m",
               "n", "o", "p", "q", "r", "s", "t", "u", "v", "w", "x", "y", "z">>
Digits == <<"0", "1", "2", "3", "4", "5", "6", "7", "8", "9">>

LowerChar(c) ==
    IF \E i \in 1..Len(UpperCase) : UpperCase[i] = c
    THEN LowerCase[CHOOSE i \in 1..Len(UpperCase) : UpperCase[i] = c]
    ELSE c

\* strings.ToLower
ToLower(str) == [i \in 1..Len(str) |-> LowerChar(str[i])]

\* strings.Index, 1-based; 0 when sep does not occur
Index(str, sep) ==
    LET hits == {i \in 1..(Len(str) - Len(sep) + 1) : SubSeq(str, i, i + Len(sep) - 1) = sep}
    IN  IF hits = {} THEN 0 ELSE CHOOSE i \in hits : \A j \in hits : i <= j

\* strings.Split for a non-empty separator
RECURSIVE Split(_, _)
Split(str, sep) ==
    LET i == Index(str, sep)
    IN  IF i = 0
        THEN <<str>>
        ELSE <<SubSeq(str, 1, i - 1)>> \o Split(SubSeq(str, i + Len(sep), Len(str)), sep)

\* fmt.Sprintf("%d", n) for n >= 0
RECURSIVE Itoa(_)
Itoa(n) == IF n < 10 THEN <<Digits[n + 1]>> ELSE Itoa(n \div 10) \o <<Digits[(n % 10) + 1]>>

AsSeparator == <<" ", "a", "s", " ">>

(***************************************************************************)
(* Table names handed to resolveTableAlias.                                *)
(***************************************************************************)
Users == <<"u", "s", "e", "r", "s">>
Uploads == <<"u", "p", "l", "o", "a", "d", "s">>
Units == <<"u", "n", "i", "t", "s">>
Posts == <<"p", "o", "s", "t", "s">>
UsersAsU == <<"u", "s", "e", "r", "s", " ", "A", "S", " ", "U">>
OrdersAsU0 == <<"o", "r", "d", "e", "r", "s", " ", "a", "s", " ", "u", "0">>
TableNames == {Users, Uploads, Units, Posts, UsersAsU, OrdersAsU0}

\* the orders in which `for _, v := range qb.tableAliasMap` may visit the map
RangeOrders(m) ==
    {o \in [1..Cardinality(DOMAIN m) -> DOMAIN m] :
        \A i, j \in 1..Cardinality(DOMAIN m) : i # j => o[i] # o[j]}

\* the loop over the values of the map, visited in the order o from position i:
\* the index of the alias after the loop
RECURSIVE RangeAliases(_, _, _, _, _)
RangeAliases(m, o, i, first, currentIndex) ==
    IF i > Len(o)
    THEN currentIndex
    ELSE IF m[o[i]] = first \o Itoa(currentIndex)
         THEN RangeAliases(m, o, i + 1, first, currentIndex + 1)
         ELSE RangeAliases(m, o, i + 1, first, currentIndex)

MapSet(m, k, v) == [n \in DOMAIN m \cup {k} |-> IF n = k THEN v ELSE m[n]]

\* QueryBuilder.resolveTableAlias: the alias returned and the map afterwards
resolveTableAlias(m, tableName, o) ==
    LET tableNameParts == Split(ToLower(tableName), AsSeparator)
    IN  IF Len(tableNameParts) > 1
        THEN [alias |-> tableNameParts[2], map |-> MapSet(m, tableName, tableNameParts[2])]
        ELSE LET alias == SubSeq(tableName, 1, 1)
                              \o Itoa(RangeAliases(m, o, 1, SubSeq(tableName, 1, 1), 0))
             IN  [alias |-> alias, map |-> MapSet(m, tableName, alias)]

InitAlias ==
    /\ aliasMap = <<>>
    /\ lastCall = [name |-> <<>>, alias |-> <<>>, before |-> <<>>]
    /\ allFresh = TRUE

ResolveTableAlias(tableName) ==
    /\ Cardinality(DOMAIN aliasMap \cup {tableName}) <= MaxTables
    /\ \E o \in RangeOrders(aliasMap) :
        LET r == resolveTableAlias(aliasMap, tableName, o)
        IN  /\ aliasMap' = r.map
            /\ lastCall' = [name |-> tableName, alias |-> r.alias, before |-> aliasMap]
    /\ allFresh' = (allFresh /\ tableName \notin DOMAIN aliasMap)

(***************************************************************************)
(* The statement compiler: QueryBuilder over the go-sqlbuilder builders.   *)
(* SQL text is a sequence of tokens; a placeholder in a builder is the     *)
(* index of its value in the builder's argument list.                      *)
(***************************************************************************)
\* flavor.NewSelectBuilder / NewInsertBuilder / NewUpdateBuilder / NewDeleteBuilder
NewBuilder(kind) ==
    [kind |-> kind, table |-> "", cols |-> <<>>, values |-> <<>>,
     assignments |-> <<>>, where |-> <<>>, groupBy |-> <<>>, having |-> <<>>,
     args |-> <<>>]

\* Args.Add for each of vals: the builder's argument list afterwards
AddArgs(b, vals) == b.args \o vals

\* the placeholders Args.Add hands out for n values added to the list args
Placeholders(args, n) == [i \in 1..n |-> Len(args) + i]

\* InsertBuilder.Values: one more row of placeholders
Values(b, row) ==
    [b EXCEPT !.values = Append(@, Placeholders(b.args, Len(row))),
              !.args = AddArgs(b, row)]

RECURSIVE AllValues(_, _)
AllValues(b, rows) ==
    IF rows = <<>> THEN b ELSE AllValues(Values(b, Head(rows)), Tail(rows))

\* Assign whose placeholders count from the start of the argument list
SetAssignmentsFromStart(b, columns, vals) ==
    [b EXCEPT !.assignments = [i \in 1..Len(columns) |-> [col |-> columns[i], arg |-> i]],
              !.args = AddArgs(b, SubSeq(vals, 1, Len(columns)))]

\* UpdateBuilder.Assign for each column, then UpdateBuilder.Set
SetAssignments(b, columns, vals) ==
    [b EXCEPT !.assignments = [i \in 1..Len(columns) |->
                                  [col |-> columns[i], arg |-> Len(b.args) + i]],
              !.args = AddArgs(b, SubSeq(vals, 1, Len(columns)))]

\* Where of a builder with the condition field = value
AddWhere(b, c) ==
    [b EXCEPT !.where = Append(@, [expr |-> <<c.field, "=", "?">>,
                                   arg |-> Len(b.args) + 1, value |-> c.value]),
              !.args = Append(@, c.value)]

\* Cond.Or / Cond.And of the sqlbuilder builders: the expressions in
\* parentheses joined by the word, and the empty string for no expression
Combine(exprs, word) ==
    IF exprs = <<>> THEN <<>>
    ELSE <<"(">> \o [i \in 1..(2 * Len(exprs) - 1) |->
                        IF i % 2 = 1 THEN exprs[(i + 1) \div 2] ELSE word] \o <<")">>

\* Or(orExpr...) applied to a builder of the kind given
Or(kind, orExpr) ==
    IF kind \in {"select", "update", "delete"} THEN Combine(orExpr, "OR") ELSE <<>>

\* And(andExpr...) applied to a builder of the kind given
And(kind, andExpr) ==
    IF kind \in {"select", "update", "delete"} THEN Combine(andExpr, "AND") ELSE <<>>

\* Where of a builder with a compiled expression: an empty one is ignored
AddWhereExpr(b, expr) ==
    IF expr = <<>> THEN b
    ELSE [b EXCEPT !.where = Append(@, [expr |-> expr, arg |-> 0, value |-> ""])]

\* SelectBuilder.GroupBy
AddGroupBy(b, col) == [b EXCEPT !.groupBy = Append(@, col)]

\* SelectBuilder.Having with the condition field > value
AddHaving(b, c) ==
    [b EXCEPT !.having = Append(@, [expr |-> <<c.field, ">", "?">>,
                                    arg |-> Len(b.args) + 1, value |-> c.value]),
              !.args = Append(@, c.value)]

RECURSIVE Join(_, _)
Join(parts, sep) ==
    IF parts = <<>> THEN <<>>
    ELSE IF Len(parts) = 1 THEN parts[1]
    ELSE parts[1] \o sep \o Join(Tail(parts), sep)

QMarks(n) == Join([i \in 1..n |-> <<"?">>], <<",">>)

WhereText(b) ==
    IF b.where = <<>> THEN <<>>
    ELSE <<"WHERE">> \o Join([i \in 1..Len(b.where) |-> b.where[i].expr], <<"AND">>)

\* the values of the placeholders of the conditions given, in order
RECURSIVE CondArgs(_, _)
CondArgs(conds, args) ==
    IF conds = <<>> THEN <<>>
    ELSE (IF Head(conds).arg = 0 THEN <<>> ELSE <<args[Head(conds).arg]>>)
         \o CondArgs(Tail(conds), args)

WhereArgs(b) == CondArgs(b.where, b.args)

GroupByText(b) ==
    IF b.groupBy = <<>> THEN <<>>
    ELSE <<"GROUP BY">> \o Join([i \in 1..Len(b.groupBy) |-> <<b.groupBy[i]>>], <<",">>)

HavingText(b) ==
    IF b.having = <<>> THEN <<>>
    ELSE <<"HAVING">> \o Join([i \in 1..Len(b.having) |-> b.having[i].expr], <<"AND">>)

HavingArgs(b) == CondArgs(b.having, b.args)

RECURSIVE Flatten(_)
Flatten(seqs) == IF seqs = <<>> THEN <<>> ELSE Head(seqs) \o Flatten(Tail(seqs))

\* Build of a sqlbuilder builder: the text, and the values of its placeholders
\* in the order in which they appear in the text
Render(b) ==
    CASE b.kind = "select" ->
            [sql |-> (IF b.cols = <<>> THEN <<>>
                      ELSE <<"SELECT">> \o Join([i \in 1..Len(b.cols) |-> <<b.cols[i]>>], <<",">>))
                     \o (IF b.table = "" THEN <<>> ELSE <<"FROM", b.table>>)
                     \o WhereText(b) \o GroupByText(b) \o HavingText(b),
             args |-> WhereArgs(b) \o HavingArgs(b), panic |-> FALSE]
      [] b.kind = "insert" ->
            [sql |-> <<"INSERT INTO", b.table>>
                     \o (IF b.cols = <<>> THEN <<>>
                         ELSE <<"(">> \o Join([i \in 1..Len(b.cols) |-> <<b.cols[i]>>], <<",">>)
                              \o <<")">>)
                     \o (IF b.values = <<>> THEN <<>>
                         ELSE <<"VALUES">>
                              \o Join([i \in 1..Len(b.values) |->
                                         <<"(">> \o QMarks(Len(b.values[i])) \o <<")">>], <<",">>)),
             args |-> Flatten([i \in 1..Len(b.values) |->
                                 [j \in 1..Len(b.values[i]) |-> b.args[b.values[i][j]]]]),
             panic |-> FALSE]
      [] b.kind = "update" ->
            [sql |-> <<"UPDATE", b.table>>
                     \o (IF b.assignments = <<>> THEN <<>>
                         ELSE <<"SET">> \o Join([i \in 1..Len(b.assignments) |->
                                                   <<b.assignments[i].col, "=", "?">>], <<",">>))
                     \o WhereText(b),
             args |-> [i \in 1..Len(b.assignments) |-> b.args[b.assignments[i].arg]]
                      \o WhereArgs(b),
             panic |-> FALSE]
      [] OTHER ->
            [sql |-> <<"DELETE FROM", b.table>> \o WhereText(b),
             args |-> WhereArgs(b), panic |-> FALSE]

\* a failed type assertion qb.builder.(*BuilderX): a run-time panic
AssertionPanic == [sql |-> <<>>, args |-> <<>>, panic |-> TRUE]

\* QueryBuilder.Build: the QueryBuilder afterwards and the result
Build(q) ==
    CASE q.queryType = "SELECT" ->
            IF q.builder.kind # "select" THEN [qb |-> q, out |-> AssertionPanic]
            ELSE LET b == IF Len(q.selectColumns) > 0
                          THEN [q.builder EXCEPT !.cols = q.selectColumns]
                          ELSE q.builder
                 IN  [qb |-> [q EXCEPT !.builder = b], out |-> Render(b)]
      [] q.queryType = "UPDATE" ->
            IF q.builder.kind # "update" THEN [qb |-> q, out |-> AssertionPanic]
            ELSE LET b == IF Len(q.updateColumns) > 0 /\ Len(q.updateValues) > 0
                          THEN SetAssignments(q.builder, q.updateColumns, q.updateValues[1])
                          ELSE q.builder
                 IN  [qb |-> [q EXCEPT !.builder = b], out |-> Render(b)]
      [] q.queryType = "DELETE" ->
            IF q.builder.kind # "delete" THEN [qb |-> q, out |-> AssertionPanic]
            ELSE [qb |-> q, out |-> Render(q.builder)]
      [] q.queryType = "INSERT" ->
            IF q.builder.kind # "insert" THEN [qb |-> q, out |-> AssertionPanic]
            ELSE LET b1 == IF q.tableName # ""
                           THEN [q.builder EXCEPT !.table = q.tableName]
                           ELSE q.builder
                     b2 == IF Len(q.insertColumns) > 0
                           THEN AllValues([b1 EXCEPT !.cols = q.insertColumns], q.insertValues)
                           ELSE b1
                 IN  [qb |-> [q EXCEPT !.builder = b2], out |-> Render(b2)]
      [] OTHER -> [qb |-> q, out |-> Render(q.builder)]

\* inputs of the composing calls
BuilderKinds == {"select", "insert", "update", "delete"}
TableArgs == {"users", "posts"}
SelectArgs == {<<>>, <<"id", "name">>}
InsertArgs == {[cols |-> <<"name", "email">>, values |-> <<<<"John", "j@x">>>>],
               [cols |-> <<"name", "email">>,
                values |-> <<<<"John", "j@x">>, <<"Jane", "a@x">>>>]}
UpdateArgs == {[cols |-> <<"name">>, values |-> <<<<"Updated">>>>],
               [cols |-> <<"name", "email">>, values |-> <<<<"Updated", "u@x">>>>]}
WhereInputs == {[field |-> "id", value |-> "1"], [field |-> "name", value |-> "John"]}
GroupByArgs == {"name"}
HavingInputs == {[field |-> "count", value |-> "2"]}
Combinators == {"AND", "OR"}
CombinatorArgs == {<<>>, <<"a = 1", "b = 2">>}
NoWhere == [comb |-> "none", children |-> <<>>, fragment |-> <<>>, err |-> Nil]

\* NewQueryBuilder(conn): with no builder handed in, a SelectBuilder
NewQueryBuilder ==
    [builder |-> NewBuilder("select"), tableName |-> "", queryType |-> "",
     selectColumns |-> <<>>, updateColumns |-> <<>>, updateValues |-> <<>>,
     insertColumns |-> <<>>, insertValues |-> <<>>]

InitBuild ==
    /\ qb = NewQueryBuilder
    /\ built = <<>>
    /\ ops = 0
    /\ lastWhere = NoWhere

Compose(q) ==
    /\ ops < MaxOps
    /\ qb' = q
    /\ built' = <<>>
    /\ ops' = ops + 1
    /\ lastWhere' = NoWhere

\* SetBuilder, or NewQueryBuilder(conn, builder) when it is the first call
SetBuilder(kind) ==
    Compose([qb EXCEPT !.builder = NewBuilder(kind)])

QbTable(name) ==
    Compose([qb EXCEPT !.tableName = name,
                       !.builder = IF qb.builder.kind \in {"select", "update", "delete"}
                                   THEN [@ EXCEPT !.table = name]
                                   ELSE @])

QbSelect(columns) ==
    Compose([qb EXCEPT !.queryType = "SELECT", !.selectColumns = columns])

QbInsert(columns, values) ==
    Compose([qb EXCEPT !.queryType = "INSERT", !.insertColumns = columns,
                       !.insertValues = values])

QbUpdate(columns, values) ==
    Compose([qb EXCEPT !.queryType = "UPDATE", !.updateColumns = columns,
                       !.updateValues = values,
                       !.builder = [NewBuilder("update") EXCEPT !.table = qb.tableName]])

QbDelete ==
    Compose([qb EXCEPT !.queryType = "DELETE",
                       !.builder = [NewBuilder("delete") EXCEPT !.table = qb.tableName]])

QbWhere(c) ==
    Compose([qb EXCEPT !.builder = IF qb.builder.kind \in {"select", "update", "delete"}
                                   THEN AddWhere(@, c)
                                   ELSE @])

\* QueryBuilder.Where(Or(exprs...)) and Where(And(exprs...)): the combinator
\* is compiled against the builder and the result handed to the builder's
\* Where; neither step has an error result
QbWhereCombinator(comb, exprs) ==
    /\ ops < MaxOps
    /\ LET fragment == IF comb = "OR" THEN Or(qb.builder.kind, exprs)
                       ELSE And(qb.builder.kind, exprs)
       IN  /\ qb' = [qb EXCEPT !.builder =
                        IF qb.builder.kind \in {"select", "update", "delete"}
                        THEN AddWhereExpr(@, fragment)
                        ELSE @]
           /\ lastWhere' = [comb |-> comb, children |-> exprs,
                            fragment |-> fragment, err |-> Nil]
    /\ built' = <<>>
    /\ ops' = ops + 1

\* QueryBuilder.GroupBy: only a SelectBuilder takes it
QbGroupBy(col) ==
    Compose([qb EXCEPT !.builder = IF qb.builder.kind = "select"
                                   THEN AddGroupBy(@, col)
                                   ELSE @])

\* QueryBuilder.Having: only a SelectBuilder takes it
QbHaving(c) ==
    Compose([qb EXCEPT !.builder = IF qb.builder.kind = "select"
                                   THEN AddHaving(@, c)
                                   ELSE @])

QbBuild ==
    /\ Len(built) < MaxBuilds
    /\ qb' = Build(qb).qb
    /\ built' = Append(built, Build(qb).out)
    /\ UNCHANGED <<ops, lastWhere>>

(***************************************************************************)
(* Pagination: Page and Cursor over the SELECT statement of a query, and   *)
(* the rows the statement returns from a table with ids 1..nrows.          *)
(* Go's int is modelled in two's complement, IntBits wide.                 *)
(***************************************************************************)
RECURSIVE Pow2(_)
Pow2(n) == IF n = 0 THEN 1 ELSE 2 * Pow2(n - 1)

MaxInt == Pow2(IntBits - 1) - 1
MinInt == -Pow2(IntBits - 1)

\* the value an int holds after an arithmetic result x
WrapInt(x) == ((x - MinInt) % Pow2(IntBits)) + MinInt

\* strconv-style value of a string of digits (the INTEGER affinity the
\* database applies to a bound text argument compared with an integer column)
RECURSIVE Atoi(_)
Atoi(str) ==
    IF str = <<>> THEN 0
    ELSE 10 * Atoi(SubSeq(str, 1, Len(str) - 1))
         + (CHOOSE d \in 0..9 : Digits[d + 1] = str[Len(str)])

\* a SelectBuilder clause that was never set
NoClause == -1

NewSelect == [where |-> <<>>, orderBy |-> <<>>, limit |-> NoClause, offset |-> NoClause]

\* QueryBuilder.Limit on a SelectBuilder
Limit(s, limit) == [s EXCEPT !.limit = IF limit < 0 THEN NoClause ELSE limit]

\* QueryBuilder.Offset on a SelectBuilder
Offset(s, offset) == [s EXCEPT !.offset = IF offset < 0 THEN NoClause ELSE offset]

\* QueryBuilder.OrderBy on a SelectBuilder; col is <<field>> or <<field, "DESC">>
OrderBy(s, col) == [s EXCEPT !.orderBy = Append(@, col)]

\* QueryBuilder.Where on a SelectBuilder with a GreaterThan / LessThan condition
Where(s, field, op, arg) ==
    [s EXCEPT !.where = Append(@, [field |-> field, op |-> op, arg |-> arg])]

\* QueryBuilder.Page
Page(s, page, perPage) ==
    LET page1 == IF page < 1 THEN 1 ELSE page
        perPage1 == IF perPage < 1 THEN 10 ELSE perPage
        offset == WrapInt((page1 - 1) * perPage1)
    IN  Offset(Limit(s, perPage1), offset)

\* Cursor with "prev" handled like every other direction
CursorAlwaysNext(s, cursor, direction, cursorField) ==
    IF cursor = <<>>
    THEN Limit(s, 1)
    ELSE Limit(OrderBy(Where(s, cursorField, ">", cursor), <<cursorField>>), 1)

\* Cursor without the ordering
CursorUnordered(s, cursor, direction, cursorField) ==
    IF cursor = <<>>
    THEN Limit(s, 1)
    ELSE LET w == IF direction = "prev"
                  THEN Where(s, cursorField, "<", cursor)
                  ELSE Where(s, cursorField, ">", cursor)
         IN  Limit(w, 1)

\* QueryBuilder.Cursor
Cursor(s, cursor, direction, cursorField) ==
    IF cursor = <<>>
    THEN Limit(s, 1)
    ELSE LET w == IF direction = "prev"
                  THEN Where(s, cursorField, "<", cursor)
                  ELSE Where(s, cursorField, ">", cursor)
             o == IF direction = "prev"
                  THEN OrderBy(w, <<cursorField, "DESC">>)
                  ELSE OrderBy(w, <<cursorField>>)
         IN  Limit(o, 1)

\* a set of ids as the sequence in ascending order
RECURSIVE Ascending(_)
Ascending(S) ==
    IF S = {} THEN <<>>
    ELSE LET m == CHOOSE x \in S : \A y \in S : x <= y
         IN  <<m>> \o Ascending(S \ {m})

Reverse(q) == [i \in 1..Len(q) |-> q[Len(q) + 1 - i]]

Holds(c, id) == IF c.op = ">" THEN id > Atoi(c.arg) ELSE id < Atoi(c.arg)

\* the ids the database returns for the statement over rows 1..n: the rows
\* that satisfy every predicate, in the order of the first ORDER BY column
\* (ascending id without one), after OFFSET and LIMIT
RunSelect(s, n) ==
    LET hits == {id \in 1..n : \A i \in 1..Len(s.where) : Holds(s.where[i], id)}
        ordered == IF s.orderBy # <<>> /\ Len(s.orderBy[1]) = 2
                   THEN Reverse(Ascending(hits))
                   ELSE Ascending(hits)
        skip == IF s.offset = NoClause THEN 0 ELSE s.offset
        last == IF s.limit = NoClause \/ skip + s.limit > Len(ordered)
                THEN Len(ordered)
                ELSE skip + s.limit
    IN  IF skip >= last THEN <<>> ELSE SubSeq(ordered, skip + 1, last)

\* inputs of the pagination calls
PageArgs == {-1, 0, 1, 2, 3, Pow2(IntBits - 2) + 2}
PerPageArgs == {-5, 0, 2, 4}
CursorArgs == {<<>>, <<"1">>, <<"2">>, <<"4">>, <<"5">>, <<"9", "9", "9">>}
DirectionArgs == {"next", "prev", "invalid"}
CursorFields == {"id"}

InitPaginate ==
    /\ nrows = 0
    /\ sel = NewSelect
    /\ calls = <<>>
    /\ fetched = [done |-> FALSE, ids |-> <<>>]

\* the test's Insert(...).Exec of the row with the next id
InsertRow ==
    /\ nrows < MaxRows
    /\ nrows' = nrows + 1
    /\ sel' = NewSelect
    /\ calls' = <<>>
    /\ fetched' = [done |-> FALSE, ids |-> <<>>]

\* Query().Table("users").Select("*"): a new statement
QueryTable ==
    /\ sel' = NewSelect
    /\ calls' = <<>>
    /\ fetched' = [done |-> FALSE, ids |-> <<>>]
    /\ UNCHANGED nrows

PageCall(page, perPage) ==
    /\ ~fetched.done
    /\ Len(calls) < MaxCalls
    /\ sel' = Page(sel, page, perPage)
    /\ calls' = Append(calls, [op |-> "Page", page |-> page, perPage |-> perPage,
                               before |-> sel])
    /\ UNCHANGED <<nrows, fetched>>

CursorCall(cursor, direction, cursorField) ==
    /\ ~fetched.done
    /\ Len(calls) < MaxCalls
    /\ sel' = Cursor(sel, cursor, direction, cursorField)
    /\ calls' = Append(calls, [op |-> "Cursor", cursor |-> cursor,
                               direction |-> direction, field |-> cursorField,
                               before |-> sel])
    /\ UNCHANGED <<nrows, fetched>>

\* ScanAll of the statement
SelectScanAll ==
    /\ ~fetched.done
    /\ fetched' = [done |-> TRUE, ids |-> RunSelect(sel, nrows)]
    /\ UNCHANGED <<nrows, sel, calls>>

(***************************************************************************)
(* Relation loader: Get and loadRelation.  A row is a map from column      *)
(* names to values; rows live in a heap and are handed around by           *)
(* reference, as Go maps are.  A value is a scalar, nil, a row or a slice  *)
(* of rows.                                                                *)
(***************************************************************************)
OneToOne == "o2o"
OneToMany == "o2m"
ManyToMany == "m2m"

Scalar(n) == [k |-> "scalar", n |-> n, refs |-> <<>>]
NilValue == [k |-> "nil", n |-> 0, refs |-> <<>>]
RowValue(r) == [k |-> "map", n |-> 0, refs |-> <<r>>]
SliceValue(rs) == [k |-> "slice", n |-> 0, refs |-> rs]

\* inflection.Singular and inflection.Plural of the table names in use
Singular(t) == CASE t = "users" -> "user" [] t = "posts" -> "post" [] OTHER -> "comment"
Plural(t) == t

\* fmt.Sprintf("%s_id", inflection.Singular(table))
ForeignColumn(t) == CASE t = "users" -> "user_id" [] t = "posts" -> "post_id"
                      [] OTHER -> "comment_id"

\* the columns of the tables (the schema of the tests)
TableCols(t) == CASE t = "users" -> {"id", "name"}
                  [] t = "posts" -> {"id", "user_id", "title"}
                  [] OTHER -> {"id", "post_id", "body"}

\* the tables of TestFind: posts 1,2,3 of users 1,1,2 and comments 1,2,3 of posts 1,1,2
DataFind ==
    [users |-> <<[id |-> 1, name |-> 1], [id |-> 2, name |-> 2], [id |-> 3, name |-> 3]>>,
     posts |-> <<[id |-> 1, user_id |-> 1, title |-> 1], [id |-> 2, user_id |-> 1, title |-> 2],
                 [id |-> 3, user_id |-> 2, title |-> 3]>>,
     comments |-> <<[id |-> 1, post_id |-> 1, body |-> 1], [id |-> 2, post_id |-> 1, body |-> 2],
                    [id |-> 3, post_id |-> 2, body |-> 3]>>]
DataNoPosts ==
    [users |-> <<[id |-> 1, name |-> 1], [id |-> 2, name |-> 2]>>,
     posts |-> <<>>, comments |-> <<>>]
DataEmpty == [users |-> <<>>, posts |-> <<>>, comments |-> <<>>]
Datasets == {DataFind, DataNoPosts, DataEmpty}

\* Rel values: a chain is the sequence of a Rel and its nested Rels
RelPosts(type, cols) == [table |-> "posts", type |-> type, cols |-> cols]
RelComments(type, cols) == [table |-> "comments", type |-> type, cols |-> cols]
RelChains ==
    {<<RelPosts(t, c)>> : t \in {OneToMany, OneToOne}, c \in {<<"id", "title">>, <<"title">>}}
    \cup {<<RelPosts(t, c), RelComments(OneToMany, <<"id", "body">>)>> :
             t \in {OneToMany, OneToOne}, c \in {<<"id", "title">>, <<"title">>}}
    \cup {<<RelComments(ManyToMany, <<"id", "body">>)>>}
RootCols == {<<"id", "name">>, <<"name">>}

RECURSIVE SeqsUpTo(_, _)
SeqsUpTo(S, n) ==
    IF n = 0 THEN {<<>>}
    ELSE SeqsUpTo(S, n - 1) \cup {Append(q, x) : q \in SeqsUpTo(S, n - 1), x \in S}

Contains(q, x) == \E i \in 1..Len(q) : q[i] = x

RECURSIVE SelectSeq2(_, _)
\* the elements of q that are in the set S, in order
SelectSeq2(q, S) ==
    IF q = <<>> THEN <<>>
    ELSE (IF Head(q) \in S THEN <<Head(q)>> ELSE <<>>) \o SelectSeq2(Tail(q), S)

\* a row of the database as Fetch returns it: the selected columns
Project(row, columns) ==
    [c \in {columns[i] : i \in 1..Len(columns)} |-> Scalar(row[c])]

\* a parent-ID list that holds the id of the first row only
IdsOfFirst(h, refs) ==
    IF refs = <<>> \/ "id" \notin DOMAIN h[Head(refs)] THEN <<>>
    ELSE <<h[Head(refs)]["id"].n>>

\* the ids of the rows that have an "id" key, in order
RECURSIVE IdsOf(_, _)
IdsOf(h, refs) ==
    IF refs = <<>> THEN <<>>
    ELSE (IF "id" \in DOMAIN h[Head(refs)] THEN <<h[Head(refs)]["id"].n>> ELSE <<>>)
         \o IdsOf(h, Tail(refs))

\* the rows of the child query: SELECT columns FROM table WHERE fk IN (parentIDs)
ChildRows(d, tbl, columns, fk, parentIDs) ==
    LET all == d[tbl]
        hit == {i \in 1..Len(all) : Contains(parentIDs, all[i][fk])}
    IN  [j \in 1..Cardinality(hit) |->
            Project(all[Ascending(hit)[j]], columns)]

\* a grouping that puts every new row into every group
GroupedAll(h, newRefs, fk, v) == newRefs

\* groupedResults[v]: the references of the new rows whose foreign key is v
Grouped(h, newRefs, fk, v) ==
    SelectSeq2(newRefs, {r \in {newRefs[i] : i \in 1..Len(newRefs)} : h[r][fk].n = v})

\* one-to-one attachment of the last related row
LastOf(related) == RowValue(related[Len(related)])

\* one-to-one attachment: related[0]
FirstOf(related) == RowValue(related[1])

RelationKey(rel) == IF rel.type = OneToOne THEN Singular(rel.table) ELSE Plural(rel.table)

\* the value loadRelation stores under the relation key of one parent
Attached(h, newRefs, rel, fk, parent) ==
    LET related == IF "id" \in DOMAIN parent
                   THEN Grouped(h, newRefs, fk, parent["id"].n)
                   ELSE <<>>
    IN  IF related # <<>>
        THEN (IF rel.type = OneToOne THEN FirstOf(related) ELSE SliceValue(related))
        ELSE (IF rel.type = OneToOne THEN NilValue ELSE SliceValue(<<>>))

\* allChildRecords that keeps only the rows of the last parent
AllChildRecordsOfLast(h, parents, key) ==
    IF parents = <<>> \/ key \notin DOMAIN h[parents[Len(parents)]] THEN <<>>
    ELSE h[parents[Len(parents)]][key].refs

\* allChildRecords: the rows attached under key to the parents, flattened
RECURSIVE AllChildRecords(_, _, _)
AllChildRecords(h, parents, key) ==
    IF parents = <<>> THEN <<>>
    ELSE (IF key \in DOMAIN h[Head(parents)] THEN h[Head(parents)][key].refs ELSE <<>>)
         \o AllChildRecords(h, Tail(parents), key)

\* the loadRelation call Get makes for one entry of opts.Includes
Frame(parents, chain, fk, parentIDs, level) ==
    [parents |-> parents, rel |-> chain, fk |-> fk, parentIDs |-> parentIDs, level |-> level]

InitRel ==
    /\ relDb = DataEmpty
    /\ heap = <<>>
    /\ results = <<>>
    /\ work = <<>>
    /\ queries = <<>>
    /\ relPc = "idle"
    /\ returned = [given |-> FALSE, rows |-> <<>>]
    /\ getArgs = [rootCols |-> <<>>, includes |-> <<>>]

\* the test's inserts: the tables are filled
Seed(d) ==
    /\ relPc # "loading"
    /\ relDb' = d
    /\ heap' = <<>>
    /\ results' = <<>>
    /\ work' = <<>>
    /\ queries' = <<>>
    /\ relPc' = "idle"
    /\ returned' = [given |-> FALSE, rows |-> <<>>]
    /\ getArgs' = [rootCols |-> <<>>, includes |-> <<>>]

\* Table("users").Select(rootCols...).Get(&Opts{includes}) up to the loop over
\* the includes: the root Fetch, the root ids, and one loadRelation call per include.
\* Get leaves nothing behind in the QueryBuilder, so a Get after an earlier one
\* behaves as one on the freshly seeded tables
Get(rootCols, includes, dbOk) ==
    /\ relPc = "idle"
    /\ getArgs' = [rootCols |-> rootCols, includes |-> includes]
    /\ queries' = <<>>
    /\ returned' = [given |-> FALSE, rows |-> <<>>]
    /\ UNCHANGED relDb
    /\ IF ~dbOk
       THEN /\ relPc' = "panicked"
            /\ heap' = <<>>
            /\ results' = <<>>
            /\ work' = <<>>
       ELSE LET rows == [i \in 1..Len(relDb.users) |-> Project(relDb.users[i], rootCols)]
                refs == [i \in 1..Len(rows) |-> i]
                rootIDs == IdsOf(rows, refs)
            IN  /\ relPc' = "loading"
                /\ heap' = rows
                /\ results' = refs
                /\ work' = [i \in 1..Len(includes) |->
                               Frame(refs, includes[i], ForeignColumn("users"), rootIDs, 1)]

\* loadRelation that issues its query also for an empty parent-ID list
SkipsLevelNever(parentIDs) == FALSE

\* loadRelation's first statement: nothing to do for an empty parent-ID list
SkipsLevel(parentIDs) == Len(parentIDs) = 0

\* a failed child query that makes loadRelation return to its caller
AfterFailedQueryReturns(w) == [relPc |-> "loading", work |-> Tail(w)]

\* panic(err) after a failed child query: every pending call is abandoned
AfterFailedQuery(w) == [relPc |-> "panicked", work |-> <<>>]

\* one call of loadRelation, up to its recursive call (which is the next call to run)
LoadRelation(dbOk) ==
    /\ relPc = "loading"
    /\ work # <<>>
    /\ UNCHANGED <<relDb, results, returned, getArgs>>
    /\ LET f == Head(work)
           rel == f.rel[1]
           columns == IF Contains(rel.cols, f.fk) THEN rel.cols ELSE Append(rel.cols, f.fk)
           ok == dbOk /\ {columns[i] : i \in 1..Len(columns)} \subseteq TableCols(rel.table)
       IN  IF SkipsLevel(f.parentIDs)
           THEN /\ work' = Tail(work)
                /\ UNCHANGED <<heap, queries, relPc>>
           ELSE /\ queries' = Append(queries, [table |-> rel.table, fk |-> f.fk,
                                               ids |-> f.parentIDs, level |-> f.level,
                                               ok |-> ok])
                /\ IF ~ok
                   THEN /\ relPc' = AfterFailedQuery(work).relPc
                        /\ work' = AfterFailedQuery(work).work
                        /\ UNCHANGED heap
                   ELSE LET newRows == ChildRows(relDb, rel.table, columns, f.fk, f.parentIDs)
                            newRefs == [i \in 1..Len(newRows) |-> Len(heap) + i]
                            h1 == heap \o newRows
                            key == RelationKey(rel)
                            isParent(r) == Contains(f.parents, r)
                            h2 == [r \in 1..Len(h1) |->
                                      IF isParent(r)
                                      THEN MapSet(h1[r], key,
                                                  Attached(h1, newRefs, rel, f.fk, h1[r]))
                                      ELSE h1[r]]
                            allChildRecords == AllChildRecords(h2, f.parents, key)
                            childIDs == IdsOf(h2, allChildRecords)
                        IN  /\ heap' = h2
                            /\ UNCHANGED relPc
                            /\ work' = IF Len(f.rel) > 1 /\ childIDs # <<>>
                                       THEN <<Frame(allChildRecords, Tail(f.rel),
                                                    ForeignColumn(rel.table), childIDs,
                                                    f.level + 1)>> \o Tail(work)
                                       ELSE Tail(work)

\* Get returns results once every loadRelation call has returned
GetReturn ==
    /\ relPc = "loading"
    /\ work = <<>>
    /\ relPc' = "returned"
    /\ returned' = [given |-> TRUE, rows |-> results]
    /\ UNCHANGED <<relDb, heap, results, work, queries, getArgs>>

(***************************************************************************)
(* The connection registry: DatabaseManager.                               *)
(***************************************************************************)
ErrConnectionNotFound == "database connection not found"
ConnNames == {"default", "replica", "archive"}
Conns == 1..NumConns

\* DatabaseManager.Add: m.connections[name] = conn
Add(m, name, conn) == MapSet(m, name, conn)

\* Remove that deletes the entry whatever Close reports
RemoveIgnoresCloseError(m, cl, name, closeOk) ==
    IF name \notin DOMAIN m
    THEN [connections |-> m, closed |-> cl, err |-> ErrConnectionNotFound, events |-> <<>>]
    ELSE [connections |-> [n \in DOMAIN m \ {name} |-> m[n]],
          closed |-> cl \cup {m[name]},
          err |-> IF closeOk THEN Nil ELSE ErrDriver,
          events |-> <<"close", "delete">>]

\* DatabaseManager.Remove on the registry m with the closed handles cl; closeOk
\* is whether conn.Close() succeeds
Remove(m, cl, name, closeOk) ==
    IF name \notin DOMAIN m
    THEN [connections |-> m, closed |-> cl, err |-> ErrConnectionNotFound, events |-> <<>>]
    ELSE IF ~closeOk
    THEN [connections |-> m, closed |-> cl \cup {m[name]}, err |-> ErrDriver,
          events |-> <<"close">>]
    ELSE [connections |-> [n \in DOMAIN m \ {name} |-> m[n]],
          closed |-> cl \cup {m[name]}, err |-> Nil,
          events |-> <<"close", "delete">>]

\* the orders in which a range statement can visit the keys S of a map
RECURSIVE RangeOrdersOf(_)
RangeOrdersOf(S) ==
    IF S = {} THEN {<<>>}
    ELSE UNION {{<<n>> \o rest : rest \in RangeOrdersOf(S \ {n})} : n \in S}

\* RemoveAll that goes on to the next entry after a Close failed
RECURSIVE RemoveAllContinues(_, _, _, _)
RemoveAllContinues(m, cl, order, ok) ==
    IF order = <<>>
    THEN [connections |-> m, closed |-> cl, err |-> Nil, visited |-> 0]
    ELSE LET r == Remove(m, cl, Head(order), ok[m[Head(order)]])
             rest == RemoveAllContinues(r.connections, r.closed, Tail(order), ok)
         IN  [rest EXCEPT !.visited = @ + 1,
                          !.err = IF r.err # Nil THEN r.err ELSE @]

\* DatabaseManager.RemoveAll: for connName := range m.All() { m.Remove(connName) },
\* with order the order in which range visits the names and ok[c] whether
\* closing the connection c succeeds
RECURSIVE RemoveAll(_, _, _, _)
RemoveAll(m, cl, order, ok) ==
    IF order = <<>>
    THEN [connections |-> m, closed |-> cl, err |-> Nil, visited |-> 0]
    ELSE LET r == Remove(m, cl, Head(order), ok[m[Head(order)]])
         IN  IF r.err # Nil
             THEN [connections |-> r.connections, closed |-> r.closed,
                   err |-> r.err, visited |-> 1]
             ELSE [RemoveAll(r.connections, r.closed, Tail(order), ok)
                       EXCEPT !.visited = @ + 1]

InitDM ==
    /\ connections = <<>>
    /\ closed = {}
    /\ lastDM = [op |-> "none", name |-> "", found |-> FALSE, err |-> Nil,
                 events |-> <<>>, before |-> <<>>, closedBefore |-> {}]

DMAdd(name, conn) ==
    /\ connections' = Add(connections, name, conn)
    /\ lastDM' = [op |-> "Add", name |-> name, found |-> TRUE, err |-> Nil,
                  events |-> <<>>, before |-> connections, closedBefore |-> closed]
    /\ UNCHANGED closed

\* DatabaseManager.Get
DMGet(name) ==
    /\ lastDM' = [op |-> "Get", name |-> name, found |-> name \in DOMAIN connections,
                  err |-> Nil, events |-> <<>>, before |-> connections,
                  closedBefore |-> closed]
    /\ UNCHANGED <<connections, closed>>

\* closing a handle that is already closed reports no error
DMRemove(name, closeOk) ==
    /\ (name \in DOMAIN connections /\ connections[name] \in closed) => closeOk
    /\ LET r == Remove(connections, closed, name, closeOk)
       IN  /\ connections' = r.connections
           /\ closed' = r.closed
           /\ lastDM' = [op |-> "Remove", name |-> name,
                         found |-> name \in DOMAIN connections, err |-> r.err,
                         events |-> r.events, before |-> connections,
                         closedBefore |-> closed]

InitTx ==
    /\ tx = NoTx
    /\ table = EmptyTable
    /\ txRows = <<>>
    /\ pc = "idle"
    /\ began = FALSE
    /\ fnOut = [kind |-> Pending, val |-> Nil]
    /\ ret = Pending
    /\ panicOut = NoPanic
    /\ finisher = <<>>
    /\ snapshot = EmptyTable
    /\ fnExpect = EmptyTable
    /\ lastOp = Op("none", "none", Nil, EmptyTable)

\* the caller moves on after Transaction has ended: its outcome is no longer observed
MoveOn ==
    IF pc = "done"
    THEN /\ pc' = "idle"
         /\ began' = FALSE
         /\ fnOut' = [kind |-> Pending, val |-> Nil]
         /\ ret' = Pending
         /\ panicOut' = NoPanic
         /\ finisher' = <<>>
         /\ snapshot' = EmptyTable
         /\ fnExpect' = EmptyTable
    ELSE UNCHANGED <<pc, began, fnOut, ret, panicOut, finisher, snapshot, fnExpect>>

(***************************************************************************)
(* QueryBuilder.Transaction, up to the call of fn: Begin, then the         *)
(* QueryBuilder bound to the connection is handed to fn.                   *)
(***************************************************************************)
TransactionBegin(dbOk) ==
    /\ pc \in {"idle", "done"}
    /\ dbOk => FreeTxIds(txRows) # {}
    /\ LET b == BeginTx(tx, dbOk, IF dbOk THEN NewTxId(txRows) ELSE NoTx)
       IN  /\ tx' = b.tx
           /\ txRows' = IF b.opened # NoTx THEN DbBegin(txRows, b.opened, table) ELSE txRows
           /\ began' = (b.err = Nil)
           /\ pc' = IF b.err = Nil THEN "fn" ELSE "done"
           /\ ret' = IF b.err = Nil THEN Pending ELSE b.err
           /\ lastOp' = Op("Transaction.Begin", "none", b.err, EmptyTable)
    /\ fnOut' = [kind |-> Pending, val |-> Nil]
    /\ panicOut' = NoPanic
    /\ finisher' = <<>>
    /\ snapshot' = table
    /\ fnExpect' = table
    /\ UNCHANGED table

\* the handle's part of a deferred commit or rollback
Finish(d) ==
    /\ tx' = d.r.tx
    /\ table' = IF d.r.applied THEN txRows[d.r.ended] ELSE table
    /\ txRows' = IF d.r.ended # NoTx THEN DbEnd(txRows, d.r.ended) ELSE txRows
    /\ finisher' = Append(finisher, [op |-> d.op, err |-> d.r.err, tx |-> d.r.ended])

(***************************************************************************)
(* fn returns e (Nil or an error): `txErr = fn(txQB); return txErr`, then  *)
(* the deferred function.                                                  *)
(***************************************************************************)
FnReturn(e, dbOk) ==
    /\ pc = "fn"
    /\ LET d == Deferred(NoPanic, e, tx, dbOk)
       IN  /\ Finish(d)
           /\ ret' = Returned(e, d)
           /\ panicOut' = d.repanic
           /\ lastOp' = Op("Transaction.End", "none", d.r.err, EmptyTable)
    /\ fnOut' = [kind |-> "return", val |-> e]
    /\ pc' = "done"
    /\ UNCHANGED <<began, snapshot, fnExpect>>

(***************************************************************************)
(* fn panics with p: the deferred function recovers p, and Transaction     *)
(* returns nothing.                                                        *)
(***************************************************************************)
FnPanic(p, dbOk) ==
    /\ pc = "fn"
    /\ LET d == Deferred(p, Nil, tx, dbOk)
       IN  /\ Finish(d)
           /\ ret' = Pending
           /\ panicOut' = d.repanic
           /\ lastOp' = Op("Transaction.End", "none", d.r.err, EmptyTable)
    /\ fnOut' = [kind |-> "panic", val |-> p]
    /\ pc' = "done"
    /\ UNCHANGED <<began, snapshot, fnExpect>>

(***************************************************************************)
(* QueryBuilder.Begin called directly: outside Transaction, or from inside *)
(* fn (also the Begin of a Transaction call nested in fn, which returns    *)
(* the error to fn).                                                       *)
(***************************************************************************)
Begin(dbOk) ==
    /\ dbOk => FreeTxIds(txRows) # {}
    /\ LET b == BeginTx(tx, dbOk, IF dbOk THEN NewTxId(txRows) ELSE NoTx)
       IN  /\ tx' = b.tx
           /\ txRows' = IF b.opened # NoTx THEN DbBegin(txRows, b.opened, table) ELSE txRows
           /\ lastOp' = Op("Begin", "none", b.err, EmptyTable)
    /\ MoveOn
    /\ UNCHANGED table

(***************************************************************************)
(* QueryBuilder.Commit / Rollback called directly by the caller that       *)
(* began the transaction with Begin.                                       *)
(***************************************************************************)
CommitCall(dbOk) ==
    /\ pc # "fn"
    /\ LET r == Commit(tx, dbOk)
       IN  /\ tx' = r.tx
           /\ table' = IF r.applied THEN txRows[r.ended] ELSE table
           /\ txRows' = IF r.ended # NoTx THEN DbEnd(txRows, r.ended) ELSE txRows
           /\ lastOp' = Op("Commit", "none", r.err, EmptyTable)
    /\ MoveOn

RollbackCall(dbOk) ==
    /\ pc # "fn"
    /\ LET r == Rollback(tx, dbOk)
       IN  /\ tx' = r.tx
           /\ txRows' = IF r.ended # NoTx THEN DbEnd(txRows, r.ended) ELSE txRows
           /\ lastOp' = Op("Rollback", "none", r.err, EmptyTable)
    /\ MoveOn
    /\ UNCHANGED table

(***************************************************************************)
(* QueryBuilder.Exec of an insert / update statement s.                    *)
(***************************************************************************)
Exec(s, dbOk) ==
    LET h == Route(tx)
        ok == dbOk /\ Valid(View(h), s)
    IN  /\ table' = IF ok /\ h = "db" THEN Apply(table, s) ELSE table
        /\ txRows' = IF ok /\ h = "tx"
                       THEN [txRows EXCEPT ![tx] = Apply(@, s)]
                       ELSE txRows
        /\ IF pc = "fn"
           THEN /\ fnExpect' = IF ok THEN Apply(fnExpect, s) ELSE fnExpect
                /\ UNCHANGED <<pc, began, fnOut, ret, panicOut, finisher, snapshot>>
           ELSE MoveOn
        /\ lastOp' = Op("Exec", h, IF ok THEN Nil ELSE ErrDriver, EmptyTable)
            /\ UNCHANGED tx

(***************************************************************************)
(* QueryBuilder.Fetch / Scan / ScanAll: the rows the routed handle shows.  *)
(***************************************************************************)
Read(name, rows, err) ==
    /\ lastOp' = Op(name, Route(tx), err, rows)
    /\ MoveOn
    /\ UNCHANGED <<tx, table, txRows>>

Fetch == Read("Fetch", View(Route(tx)), Nil)

Scan ==
    LET rows == FirstRow(View(Route(tx)))
    IN  Read("Scan", rows, IF rows = EmptyTable THEN ErrNoRows ELSE Nil)

ScanAll == Read("ScanAll", View(Route(tx)), Nil)

\* closing a handle that is already closed reports no error
DMRemoveAll(order, ok) ==
    /\ \A c \in closed : ok[c]
    /\ LET r == RemoveAll(connections, closed, order, ok)
       IN  /\ connections' = r.connections
           /\ closed' = r.closed
           /\ lastDM' = [op |-> "RemoveAll", name |-> "", found |-> FALSE,
                         err |-> r.err, events |-> <<>>, before |-> connections,
                         closedBefore |-> closed, order |-> order, ok |-> ok,
                         visited |-> r.visited]

(***************************************************************************)
(* The connection registry shared by several goroutines: every method of   *)
(* DatabaseManager as the sequence of its lock operations and map accesses.*)
(***************************************************************************)
Callers == 1..NumCallers
NoCaller == 0
SharedNames == {"default", "replica"}
DMMethods == {"Add", "Get", "Remove", "All", "RemoveAll"}

IdleCaller == [pc |-> "idle", op |-> "none", name |-> "", conn |-> 0,
               seen |-> {}, start |-> {}, err |-> Nil]

\* sync.RWMutex: Lock is granted when nobody holds the lock
CanLock(mu) == mu.writer = NoCaller /\ mu.readers = {}

\* sync.RWMutex: RLock is granted when no writer holds the lock and no Lock
\* call is waiting
CanRLock(mu) == mu.writer = NoCaller /\ mu.pending = {}

\* the first step of each method
Entry(op) ==
    CASE op = "Add" -> "Add_Lock"
      [] op = "Get" -> "Get_RLock"
      [] op = "Remove" -> "Remove_Lock"
      [] op = "All" -> "All_RLock"
      [] op = "RemoveAll" -> "All_RLock"

InitConc ==
    /\ mutex = [writer |-> NoCaller, readers |-> {}, pending |-> {}]
    /\ callers = [g \in Callers |-> IdleCaller]
    /\ fatal = FALSE

\* goroutine g calls a method of the DatabaseManager
Call(g, op, name, conn) ==
    /\ ~fatal
    /\ callers[g].pc = "idle"
    /\ callers' = [callers EXCEPT ![g] =
                      [IdleCaller EXCEPT !.pc = Entry(op), !.op = op,
                          !.name = IF op \in {"Add", "Get", "Remove"} THEN name ELSE "",
                          !.conn = IF op = "Add" THEN conn ELSE 0]]
    /\ UNCHANGED <<mutex, fatal, connections, closed>>

\* m.mutex.Lock() in Add and Remove: granted, or the call waits
MutexLock(g) ==
    /\ ~fatal
    /\ callers[g].pc \in {"Add_Lock", "Remove_Lock"}
    /\ IF CanLock(mutex)
       THEN /\ mutex' = [mutex EXCEPT !.writer = g, !.pending = @ \ {g}]
            /\ callers' = [callers EXCEPT ![g].pc =
                              IF @ = "Add_Lock" THEN "Add_Write" ELSE "Remove_Read"]
       ELSE /\ g \notin mutex.pending
            /\ mutex' = [mutex EXCEPT !.pending = @ \cup {g}]
            /\ UNCHANGED callers
    /\ UNCHANGED <<fatal, connections, closed>>

\* m.mutex.RLock() in Get and All
MutexRLock(g) ==
    /\ ~fatal
    /\ callers[g].pc \in {"Get_RLock", "All_RLock"}
    /\ CanRLock(mutex)
    /\ mutex' = [mutex EXCEPT !.readers = @ \cup {g}]
    /\ callers' = [callers EXCEPT ![g].pc =
                      IF @ = "Get_RLock" THEN "Get_Read" ELSE "All_Read"]
    /\ UNCHANGED <<fatal, connections, closed>>

\* Add: m.connections[name] = conn
AddWrite(g) ==
    /\ ~fatal
    /\ callers[g].pc = "Add_Write"
    /\ connections' = Add(connections, callers[g].name, callers[g].conn)
    /\ callers' = [callers EXCEPT ![g].pc = "Add_Unlock"]
    /\ UNCHANGED <<mutex, fatal, closed>>

\* Get: conn, found := m.connections[connName]
GetRead(g) ==
    /\ ~fatal
    /\ callers[g].pc = "Get_Read"
    /\ callers' = [callers EXCEPT ![g].pc = "Get_RUnlock",
                                  ![g].conn = IF callers[g].name \in DOMAIN connections
                                              THEN connections[callers[g].name] ELSE 0]
    /\ UNCHANGED <<mutex, fatal, connections, closed>>

\* Remove: conn, found := m.connections[name]; not found returns the error
RemoveRead(g) ==
    /\ ~fatal
    /\ callers[g].pc = "Remove_Read"
    /\ callers' = [callers EXCEPT ![g] =
                      IF callers[g].name \in DOMAIN connections
                      THEN [@ EXCEPT !.pc = "Remove_Close",
                                     !.conn = connections[callers[g].name]]
                      ELSE [@ EXCEPT !.pc = "Remove_Unlock",
                                     !.err = ErrConnectionNotFound]]
    /\ UNCHANGED <<mutex, fatal, connections, closed>>

\* Remove: err := conn.Close(); a failure returns the error (closing a handle
\* that is already closed reports no error)
RemoveClose(g, closeOk) ==
    /\ ~fatal
    /\ callers[g].pc = "Remove_Close"
    /\ callers[g].conn \in closed => closeOk
    /\ closed' = closed \cup {callers[g].conn}
    /\ callers' = [callers EXCEPT ![g] =
                      IF closeOk THEN [@ EXCEPT !.pc = "Remove_Delete"]
                      ELSE [@ EXCEPT !.pc = "Remove_Unlock", !.err = ErrDriver]]
    /\ UNCHANGED <<mutex, fatal, connections>>

\* Remove: delete(m.connections, name)
RemoveDelete(g) ==
    /\ ~fatal
    /\ callers[g].pc = "Remove_Delete"
    /\ connections' = [n \in DOMAIN connections \ {callers[g].name} |-> connections[n]]
    /\ callers' = [callers EXCEPT ![g].pc = "Remove_Unlock"]
    /\ UNCHANGED <<mutex, fatal, closed>>

\* All: return m.connections (the map itself, not a copy)
AllRead(g) ==
    /\ ~fatal
    /\ callers[g].pc = "All_Read"
    /\ callers' = [callers EXCEPT ![g].pc = "All_RUnlock"]
    /\ UNCHANGED <<mutex, fatal, connections, closed>>

\* the deferred m.mutex.Unlock() of Add and Remove, and the return; inside
\* RemoveAll a Remove that failed ends the loop, any other goes on with it
MutexUnlock(g) ==
    /\ ~fatal
    /\ callers[g].pc \in {"Add_Unlock", "Remove_Unlock"}
    /\ mutex' = [mutex EXCEPT !.writer = NoCaller]
    /\ callers' = [callers EXCEPT ![g] =
                      IF @.op = "RemoveAll" /\ @.err = Nil
                      THEN [@ EXCEPT !.pc = "Range_Next"]
                      ELSE IdleCaller]
    /\ UNCHANGED <<fatal, connections, closed>>

\* the deferred m.mutex.RUnlock() of Get and All, and the return; RemoveAll
\* goes on to range over the map that All returned
MutexRUnlock(g) ==
    /\ ~fatal
    /\ callers[g].pc \in {"Get_RUnlock", "All_RUnlock"}
    /\ mutex' = [mutex EXCEPT !.readers = @ \ {g}]
    /\ callers' = [callers EXCEPT ![g] =
                      IF @.op = "RemoveAll" THEN [@ EXCEPT !.pc = "Range_Init"]
                      ELSE IdleCaller]
    /\ UNCHANGED <<fatal, connections, closed>>

\* the goroutines about to write the map
Writing(g) == callers[g].pc \in {"Add_Write", "Remove_Delete"}

\* RemoveAll: the range statement starts iterating over the map
RangeInit(g) ==
    /\ ~fatal
    /\ callers[g].pc = "Range_Init"
    /\ callers' = [callers EXCEPT ![g].pc = "Range_Next",
                                  ![g].start = DOMAIN connections]
    /\ UNCHANGED <<mutex, fatal, connections, closed>>

\* RemoveAll: the range statement produces the next name, or ends.  An entry
\* added since the iteration started may be produced or skipped; an iteration
\* that runs while another goroutine writes the map is a data race, which
\* the runtime may detect and stop the program
RangeNext(g) ==
    /\ ~fatal
    /\ callers[g].pc = "Range_Next"
    /\ LET rest == DOMAIN connections \ callers[g].seen
       IN  \/ /\ \E n \in rest :
                    callers' = [callers EXCEPT ![g].pc = "Remove_Lock",
                                               ![g].name = n,
                                               ![g].seen = @ \cup {n}]
              /\ UNCHANGED fatal
           \/ /\ rest \cap callers[g].start = {}
              /\ callers' = [callers EXCEPT ![g] = IdleCaller]
              /\ UNCHANGED fatal
           \/ /\ \E h \in Callers \ {g} : Writing(h)
              /\ fatal' = TRUE
              /\ UNCHANGED callers
    /\ UNCHANGED <<mutex, connections, closed>>

(***************************************************************************)
(* One Connection used by several goroutines: BeginTx, Exec, Commit and    *)
(* Rollback as the sequence of their reads and writes of Connection.tx.    *)
(* The Connection has no lock.                                             *)
(***************************************************************************)
IdleWorker == [pc |-> "idle", stmt |-> 0, route |-> "none", opened |-> NoTx,
               holds |-> NoTx]
NoExec == [caller |-> NoCaller, handle |-> "none", activeOwner |-> NoCaller,
           err |-> Nil]
SharedStmts == {s \in Stmts : s.op = "insert" /\ s.v = 1}

InitTxConc ==
    /\ workers = [g \in Callers |-> IdleWorker]
    /\ txOwner = <<>>
    /\ lastExec = NoExec
    /\ undone = FALSE

\* the goroutine that began the transaction Connection.tx holds
ActiveOwner == IF tx \in DOMAIN txOwner THEN txOwner[tx] ELSE NoCaller

\* goroutine g calls QueryBuilder.Begin
CallBegin(g) ==
    /\ workers[g].pc = "idle"
    /\ workers' = [workers EXCEPT ![g].pc = "Begin_Check"]
    /\ UNCHANGED <<tx, table, txRows, txOwner, lastExec, undone>>

\* BeginTx: if c.tx != nil { return nil, errors.New("already in a transaction") }
BeginCheck(g) ==
    /\ workers[g].pc = "Begin_Check"
    /\ workers' = [workers EXCEPT ![g] =
                      IF tx # NoTx
                      THEN [@ EXCEPT !.pc = "idle"]
                      ELSE [@ EXCEPT !.pc = "Begin_Open"]]
    /\ UNCHANGED <<tx, table, txRows, txOwner, lastExec, undone>>

\* BeginTx: tx, err := c.DB.BeginTxx(ctx, nil); a failure is returned
BeginOpen(g, dbOk) ==
    /\ workers[g].pc = "Begin_Open"
    /\ dbOk => FreeTxIds(txRows) # {}
    /\ IF dbOk
       THEN LET id == NewTxId(txRows)
            IN  /\ txRows' = DbBegin(txRows, id, table)
                /\ txOwner' = MapSet(txOwner, id, g)
                /\ workers' = [workers EXCEPT ![g].pc = "Begin_Store", ![g].opened = id]
       ELSE /\ workers' = [workers EXCEPT ![g].pc = "idle"]
            /\ UNCHANGED <<txRows, txOwner>>
    /\ UNCHANGED <<tx, table, lastExec, undone>>

\* BeginTx: c.tx = tx; return tx, nil
BeginStore(g) ==
    /\ workers[g].pc = "Begin_Store"
    /\ tx' = workers[g].opened
    /\ workers' = [workers EXCEPT ![g].pc = "idle", ![g].holds = workers[g].opened,
                                  ![g].opened = NoTx]
    /\ UNCHANGED <<table, txRows, txOwner, lastExec, undone>>

\* goroutine g calls Exec of a QueryBuilder of its own on the Connection
CallExec(g, s) ==
    /\ workers[g].pc = "idle"
    /\ workers' = [workers EXCEPT ![g].pc = "Exec_Check", ![g].stmt = s]
    /\ UNCHANGED <<tx, table, txRows, txOwner, lastExec, undone>>

\* Exec: if qb.conn.InTransaction()
ExecCheck(g) ==
    /\ workers[g].pc = "Exec_Check"
    /\ workers' = [workers EXCEPT ![g].pc = "Exec_Run", ![g].route = Route(tx)]
    /\ UNCHANGED <<tx, table, txRows, txOwner, lastExec, undone>>

\* Exec: return qb.conn.tx.ExecContext(...) or qb.conn.DB.ExecContext(...);
\* c.tx is read again, and a nil c.tx is dereferenced
ExecRun(g, dbOk) ==
    /\ workers[g].pc = "Exec_Run"
    /\ LET s == workers[g].stmt
           h == workers[g].route
       IN  IF h = "db"
           THEN LET ok == dbOk /\ Valid(table, s)
                IN  /\ table' = IF ok THEN Apply(table, s) ELSE table
                    /\ lastExec' = [caller |-> g, handle |-> "db",
                                    activeOwner |-> ActiveOwner,
                                    err |-> IF ok THEN Nil ELSE ErrDriver]
                    /\ UNCHANGED <<txRows, undone>>
           ELSE IF tx = NoTx
           THEN /\ lastExec' = [caller |-> g, handle |-> "nil",
                                activeOwner |-> NoCaller, err |-> "nil pointer dereference"]
                /\ UNCHANGED <<table, txRows, undone>>
           ELSE LET ok == dbOk /\ Valid(txRows[tx], s)
                IN  /\ txRows' = IF ok THEN [txRows EXCEPT ![tx] = Apply(@, s)] ELSE txRows
                    /\ lastExec' = [caller |-> g, handle |-> "tx",
                                    activeOwner |-> ActiveOwner,
                                    err |-> IF ok THEN Nil ELSE ErrDriver]
                    /\ UNCHANGED <<table, undone>>
    /\ workers' = [workers EXCEPT ![g].pc = "idle", ![g].stmt = 0, ![g].route = "none"]
    /\ UNCHANGED <<tx, txOwner>>

\* the last statement executed went into the open transaction t and came
\* from another goroutine than the one that began t
ForeignRows(t) ==
    /\ t \in DOMAIN txOwner
    /\ lastExec.handle = "tx" /\ lastExec.err = Nil
    /\ lastExec.activeOwner = txOwner[t]
    /\ lastExec.caller # txOwner[t]

\* goroutine g, whose Begin succeeded, calls Commit or Rollback
EndTx(g, kind, dbOk) ==
    /\ workers[g].pc = "idle"
    /\ workers[g].holds # NoTx
    /\ LET r == IF kind = "commit" THEN Commit(tx, dbOk) ELSE Rollback(tx, dbOk)
       IN  /\ tx' = r.tx
           /\ table' = IF r.applied THEN txRows[r.ended] ELSE table
           /\ txRows' = IF r.ended # NoTx THEN DbEnd(txRows, r.ended) ELSE txRows
           /\ txOwner' = IF r.ended # NoTx THEN Without(txOwner, r.ended) ELSE txOwner
           /\ undone' = (undone \/ (r.ended # NoTx /\ ~r.applied /\ ForeignRows(r.ended)))
           /\ workers' = [workers EXCEPT ![g].holds = NoTx]
    /\ UNCHANGED lastExec

Init ==
    /\ InitTx /\ InitAlias /\ InitBuild /\ InitPaginate /\ InitRel /\ InitDM
    /\ InitConc /\ InitTxConc

Next ==
    /\ UNCHANGED <<varsAlias, varsBuild, varsPaginate, varsRel, varsDM, varsConc, varsTxConc>>
    /\ \/ \E dbOk \in BOOLEAN : TransactionBegin(dbOk)
       \/ \E e \in FnErrs \cup {Nil}, dbOk \in BOOLEAN : FnReturn(e, dbOk)
       \/ \E p \in Panics, dbOk \in BOOLEAN : FnPanic(p, dbOk)
       \/ \E dbOk \in BOOLEAN : Begin(dbOk)
       \/ \E dbOk \in BOOLEAN : CommitCall(dbOk)
       \/ \E dbOk \in BOOLEAN : RollbackCall(dbOk)
       \/ \E s \in Stmts, dbOk \in BOOLEAN : Exec(s, dbOk)
       \/ Fetch
       \/ Scan
       \/ ScanAll

Spec == Init /\ [][Next]_vars

NextAlias ==
    /\ UNCHANGED <<varsTx, varsBuild, varsPaginate, varsRel, varsDM, varsConc, varsTxConc>>
    /\ \E tableName \in TableNames : ResolveTableAlias(tableName)

SpecAlias == Init /\ [][NextAlias]_vars

NextBuild ==
    /\ UNCHANGED <<varsTx, varsAlias, varsPaginate, varsRel, varsDM, varsConc, varsTxConc>>
    /\ \/ \E kind \in BuilderKinds : SetBuilder(kind)
       \/ \E name \in TableArgs : QbTable(name)
       \/ \E columns \in SelectArgs : QbSelect(columns)
       \/ \E a \in InsertArgs : QbInsert(a.cols, a.values)
       \/ \E a \in UpdateArgs : QbUpdate(a.cols, a.values)
       \/ QbDelete
       \/ \E c \in WhereInputs : QbWhere(c)
       \/ \E comb \in Combinators, exprs \in CombinatorArgs : QbWhereCombinator(comb, exprs)
       \/ \E col \in GroupByArgs : QbGroupBy(col)
       \/ \E c \in HavingInputs : QbHaving(c)
       \/ QbBuild

SpecBuild == Init /\ [][NextBuild]_vars

NextPaginate ==
    /\ UNCHANGED <<varsTx, varsAlias, varsBuild, varsRel, varsDM, varsConc, varsTxConc>>
    /\ \/ InsertRow
       \/ QueryTable
       \/ \E page \in PageArgs, perPage \in PerPageArgs : PageCall(page, perPage)
       \/ \E cursor \in CursorArgs, direction \in DirectionArgs, f \in CursorFields :
             CursorCall(cursor, direction, f)
       \/ SelectScanAll

SpecPaginate == Init /\ [][NextPaginate]_vars

\* the steps of a Get that is under way
RelStep ==
    /\ UNCHANGED <<varsTx, varsAlias, varsBuild, varsPaginate, varsDM, varsConc, varsTxConc>>
    /\ (\E dbOk \in BOOLEAN : LoadRelation(dbOk)) \/ GetReturn

NextRel ==
    /\ UNCHANGED <<varsTx, varsAlias, varsBuild, varsPaginate, varsDM, varsConc, varsTxConc>>
    /\ \/ \E d \in Datasets : Seed(d)
       \/ /\ relPc = "idle"
          /\ \E rootCols \in RootCols, includes \in SeqsUpTo(RelChains, MaxIncludes),
                dbOk \in BOOLEAN : Get(rootCols, includes, dbOk)
       \/ \E dbOk \in BOOLEAN : LoadRelation(dbOk)
       \/ GetReturn

\* a call that is running runs on: Get and loadRelation are sequential code
SpecRel == Init /\ [][NextRel]_vars /\ WF_vars(RelStep)

NextDM ==
    /\ UNCHANGED <<varsTx, varsAlias, varsBuild, varsPaginate, varsRel, varsConc, varsTxConc>>
    /\ \/ \E name \in ConnNames, conn \in Conns : DMAdd(name, conn)
       \/ \E name \in ConnNames : DMGet(name)
       \/ \E name \in ConnNames, closeOk \in BOOLEAN : DMRemove(name, closeOk)
       \/ \E order \in RangeOrdersOf(DOMAIN connections), ok \in [Conns -> BOOLEAN] :
             DMRemoveAll(order, ok)

SpecDM == Init /\ [][NextDM]_vars

NextConc ==
    /\ UNCHANGED <<varsTx, varsAlias, varsBuild, varsPaginate, varsRel, lastDM, varsTxConc>>
    /\ \E g \in Callers :
          \/ \E op \in DMMethods, name \in SharedNames, conn \in Conns :
                Call(g, op, name, conn)
          \/ MutexLock(g)
          \/ MutexRLock(g)
          \/ AddWrite(g)
          \/ GetRead(g)
          \/ RemoveRead(g)
          \/ \E closeOk \in BOOLEAN : RemoveClose(g, closeOk)
          \/ RemoveDelete(g)
          \/ AllRead(g)
          \/ MutexUnlock(g)
          \/ MutexRUnlock(g)
          \/ RangeInit(g)
          \/ RangeNext(g)

SpecConc == Init /\ [][NextConc]_vars

NextTxConc ==
    /\ UNCHANGED <<pc, began, fnOut, ret, panicOut, finisher, snapshot, fnExpect, lastOp>>
    /\ UNCHANGED <<varsAlias, varsBuild, varsPaginate, varsRel, varsDM, varsConc>>
    /\ \E g \in Callers :
          \/ CallBegin(g)
          \/ BeginCheck(g)
          \/ \E dbOk \in BOOLEAN : BeginOpen(g, dbOk)
          \/ BeginStore(g)
          \/ \E s \in SharedStmts : CallExec(g, s)
          \/ ExecCheck(g)
          \/ \E dbOk \in BOOLEAN : ExecRun(g, dbOk)
          \/ \E kind \in {"commit", "rollback"}, dbOk \in BOOLEAN : EndTx(g, kind, dbOk)

SpecTxConc == Init /\ [][NextTxConc]_vars

(***************************************************************************)
(* Transaction Coordinator: properties.                                    *)
(***************************************************************************)
Ended == pc = "done" /\ began
FnFailed == fnOut.kind = "return" /\ fnOut.val # Nil
FnPanicked == fnOut.kind = "panic"
FnSucceeded == fnOut.kind = "return" /\ fnOut.val = Nil
StmtOps == {"Exec", "Fetch", "Scan", "ScanAll"}

\* C1: when begin succeeded and fn returned a non-nil error e, the deferred
\* function invoked exactly one rollback, on the connection's transaction, and
\* no commit; Transaction returned e and no panic left it, whatever the
\* rollback itself reported.
C1_ErrorRollsBackAndIsReturned ==
    (Ended /\ FnFailed) =>
        /\ Len(finisher) = 1
        /\ finisher[1].op = "rollback"
        /\ finisher[1].tx # NoTx
        /\ ret = fnOut.val
        /\ panicOut = NoPanic

C1_Witness ==
    /\ Ended /\ FnFailed
    /\ finisher[1].op = "rollback" /\ finisher[1].err = ErrDriver
    /\ ret = "intentional error"

\* C2: when begin succeeded and fn panicked with p, the deferred function
\* invoked exactly one rollback and no commit, Transaction returned no value,
\* and the panic that left Transaction carries exactly p.
C2_PanicRollsBackAndPropagates ==
    (Ended /\ FnPanicked) =>
        /\ Len(finisher) = 1
        /\ finisher[1].op = "rollback"
        /\ finisher[1].tx # NoTx
        /\ panicOut = fnOut.val
        /\ ret = Pending

C2_Witness ==
    /\ Ended /\ FnPanicked
    /\ panicOut = "intentional panic"
    /\ finisher[1].op = "rollback"
    /\ fnExpect # snapshot

C4_Atomicity ==
    Ended =>
        IF FnFailed \/ FnPanicked
        THEN table = snapshot
        ELSE finisher[1].err = Nil => table = fnExpect

C4_Witness ==
    /\ Ended /\ FnFailed
    /\ \E k \in Keys : fnExpect[k] # NoRow /\ table[k] = NoRow
    /\ table = snapshot

\* C5: a begin issued while a transaction is Active fails with the
\* already-in-a-transaction error and changes nothing: Connection.tx is the
\* same transaction, its statements are kept, and it is the only transaction
\* open on the handle, so it can still be committed or rolled back.
C5_SecondBeginFails ==
    /\ [](tx # NoTx => DOMAIN txRows = {tx})
    /\ [][(lastOp'.op \in {"Begin", "Transaction.Begin"} /\ tx # NoTx) =>
            /\ lastOp'.err = ErrAlreadyInTx
            /\ tx' = tx
            /\ txRows' = txRows
            /\ table' = table]_vars

C5_Witness ==
    /\ pc = "fn"
    /\ lastOp.op = "Begin" /\ lastOp.active /\ lastOp.err = ErrAlreadyInTx
    /\ tx # NoTx /\ txRows[tx] # table

\* C6: once a Transaction whose begin succeeded has ended, the connection is
\* Idle: Connection.tx is nil, no transaction is left open on the handle, and
\* a begin on the connection succeeds.
C6_IdleAfterTransaction ==
    Ended =>
        /\ ~InTransaction(tx)
        /\ DOMAIN txRows = {}
        /\ BeginTx(tx, TRUE, 1).err = Nil

C6_Witness ==
    /\ Ended
    /\ finisher[1].err = ErrDriver
    /\ ~InTransaction(tx)

\* C7: a statement (Exec, Fetch, Scan, ScanAll) issued while the connection
\* is Active goes to the transactional handle: it leaves the rows outside the
\* transaction alone and reads what the transaction wrote; a statement issued
\* while the connection is Idle goes to the ambient handle.
C7_StatementRouting ==
    [][lastOp'.op \in StmtOps =>
        IF tx # NoTx
        THEN /\ lastOp'.handle = "tx"
             /\ table' = table
             /\ lastOp'.op \in {"Fetch", "ScanAll"} =>
                    lastOp'.rows = txRows[tx]
        ELSE /\ lastOp'.handle = "db"
             /\ txRows' = txRows
             /\ lastOp'.op \in {"Fetch", "ScanAll"} => lastOp'.rows = table]_vars

C7_Witness ==
    /\ pc = "fn"
    /\ lastOp.op = "Fetch" /\ lastOp.handle = "tx"
    /\ lastOp.rows # table

(***************************************************************************)
(* Table aliases: properties.                                              *)
(***************************************************************************)
IsExplicit(tableName) == Len(Split(ToLower(tableName), AsSeparator)) > 1

\* the alias as the caller wrote it: the text after the last " AS "
WrittenAlias(tableName) ==
    LET parts == Split(ToLower(tableName), AsSeparator)
        n == Len(parts[Len(parts)])
    IN  SubSeq(tableName, Len(tableName) - n + 1, Len(tableName))

\* C9: after any sequence of resolveTableAlias calls for pairwise different
\* table names, the aliases in the alias map are pairwise distinct.
C9_AliasesDistinct ==
    allFresh =>
        \A n1, n2 \in DOMAIN aliasMap : n1 # n2 => aliasMap[n1] # aliasMap[n2]

\* C10: resolving a table name that is already in the alias map returns the
\* alias recorded for it and leaves the map unchanged, and a name written as
\* "<name> AS alias" is registered with the alias text as written.
C10_AliasReused ==
    lastCall.name # <<>> =>
        /\ lastCall.name \in DOMAIN lastCall.before =>
              /\ lastCall.alias = lastCall.before[lastCall.name]
              /\ aliasMap = lastCall.before
        /\ IsExplicit(lastCall.name) =>
              aliasMap[lastCall.name] = WrittenAlias(lastCall.name)

(***************************************************************************)
(* Statement compiler: properties.                                         *)
(***************************************************************************)
\* C8: Build calls made with no composing call in between return the same
\* SQL text and the same argument list.
C8_BuildIdempotent ==
    \A i \in 1..Len(built) : built[i] = built[1]

\* the columns cols separated by commas
ColumnList(cols) == Join([i \in 1..Len(cols) |-> <<cols[i]>>], <<",">>)

\* "INSERT INTO t (c1, c2) VALUES (?, ?), (?, ?)" for the rows given
InsertText(t, cols, rows) ==
    <<"INSERT INTO", t, "(">> \o ColumnList(cols) \o <<")", "VALUES">>
    \o Join([i \in 1..Len(rows) |-> <<"(">> \o QMarks(Len(rows[i])) \o <<")">>], <<",">>)

\* the first Build of an INSERT composed with a column list and value rows
InsertBuilt ==
    /\ built # <<>>
    /\ qb.queryType = "INSERT"
    /\ Len(qb.insertColumns) > 0
    /\ Len(qb.insertValues) >= 1

\* C23: Build of an INSERT with a column list and k >= 1 value rows renders
\* one statement with a single VALUES list of k tuples and the rows' values
\* in row-major order as arguments; with no target table set it fails and
\* produces no statement.
C23_InsertComposition ==
    InsertBuilt =>
        IF qb.tableName = ""
        THEN built[1].panic /\ built[1].sql = <<>>
        ELSE /\ ~built[1].panic
             /\ built[1].sql = InsertText(qb.tableName, qb.insertColumns, qb.insertValues)
             /\ built[1].args = Flatten(qb.insertValues)

\* "UPDATE t SET c1 = ?, c2 = ?"
UpdateText(t, cols) ==
    <<"UPDATE", t, "SET">> \o Join([i \in 1..Len(cols) |-> <<cols[i], "=", "?">>], <<",">>)

\* "WHERE f1 = ? AND f2 = ?" for the conditions given to Where
PredicateText(conds) ==
    IF conds = <<>> THEN <<>>
    ELSE <<"WHERE">> \o Join([i \in 1..Len(conds) |-> conds[i].expr], <<"AND">>)

\* the values the conditions were given, in the order of the calls
RECURSIVE ValuesOf(_)
ValuesOf(conds) ==
    IF conds = <<>> THEN <<>>
    ELSE (IF Head(conds).arg = 0 THEN <<>> ELSE <<Head(conds).value>>)
         \o ValuesOf(Tail(conds))

\* the number of placeholders in a statement text
PlaceholderCount(sql) == Cardinality({i \in 1..Len(sql) : sql[i] = "?"})

\* the first Build of an UPDATE of a table with columns and values
UpdateBuilt ==
    /\ built # <<>>
    /\ qb.queryType = "UPDATE" /\ qb.builder.kind = "update"
    /\ qb.tableName # "" /\ qb.builder.table = qb.tableName
    /\ Len(qb.updateColumns) > 0 /\ Len(qb.updateValues) > 0

\* C24: Update(cols, values) followed by Where renders
\* "UPDATE t SET c1 = ?, c2 = ? WHERE <predicate>" with one assignment per
\* column in the given order, and its arguments are the assigned values in
\* column order followed by the predicate's arguments; the arguments of a
\* SELECT with WHERE and HAVING and of a DELETE are likewise in the order in
\* which their placeholders appear.
C24_UpdateComposition ==
    built # <<>> =>
        LET out == built[1]
            b == qb.builder
        IN  /\ UpdateBuilt =>
                  /\ ~out.panic
                  /\ out.sql = UpdateText(qb.tableName, qb.updateColumns)
                                \o PredicateText(b.where)
                  /\ out.args = SubSeq(qb.updateValues[1], 1, Len(qb.updateColumns))
                                 \o ValuesOf(b.where)
            /\ (qb.queryType = "SELECT" /\ b.kind = "select") =>
                  /\ ~out.panic
                  /\ out.args = ValuesOf(b.where) \o ValuesOf(b.having)
                  /\ PlaceholderCount(out.sql) = Len(out.args)
            /\ (qb.queryType = "DELETE" /\ b.kind = "delete") =>
                  /\ ~out.panic
                  /\ out.args = ValuesOf(b.where)
                  /\ PlaceholderCount(out.sql) = Len(out.args)

\* an UPDATE of two columns with a predicate added by Where has been built
C24_Witness ==
    /\ UpdateBuilt
    /\ Len(qb.updateColumns) = 2
    /\ Len(qb.builder.where) >= 1
    /\ built[1].args = <<"Updated", "u@x", qb.builder.where[1].value>>

EmptyConditionError == "empty condition"

\* the last composing call was a Where with an AND or OR of no conditions
EmptyCombinatorCompiled ==
    lastWhere.comb \in Combinators /\ lastWhere.children = <<>>

\* C25: compiling an AND or OR combinator with no child conditions yields
\* the empty-condition error, and no statement without a WHERE clause is
\* built from it.
C25_EmptyCombinatorIsError ==
    EmptyCombinatorCompiled =>
        /\ lastWhere.err = EmptyConditionError
        /\ \A i \in 1..Len(built) :
              built[i].panic \/ Contains(built[i].sql, "WHERE")

(***************************************************************************)
(* Pagination: properties.                                                 *)
(***************************************************************************)
LastCall == calls[Len(calls)]
PagedLast == calls # <<>> /\ LastCall.op = "Page"
CursorLast == calls # <<>> /\ LastCall.op = "Cursor"
NormPage == IF LastCall.page >= 1 THEN LastCall.page ELSE 1
NormPerPage == IF LastCall.perPage >= 1 THEN LastCall.perPage ELSE 10

\* C11: after Page(page, perPage) the statement's limit is P and its offset
\* is (G-1)*P for the normalized page G and per-page P, so the limit is at
\* least 1 and the offset at least 0.
C11_PageLimitOffset ==
    PagedLast =>
        /\ sel.limit = NormPerPage
        /\ sel.offset = (NormPage - 1) * NormPerPage
        /\ sel.limit >= 1
        /\ sel.offset >= 0

\* the ids from lo to hi in ascending order
IdRange(lo, hi) == [i \in 1..(IF hi < lo THEN 0 ELSE hi - lo + 1) |-> lo + i - 1]

OnlyCall == Len(calls) = 1

\* C12: over rows with ids 1..N a SELECT with Page(page, perPage) returns
\* exactly the rows with ids offset+1 .. min(offset+P, N) for the normalized
\* P and offset = (G-1)*P, and none when offset >= N.
C12_PageWindow ==
    (fetched.done /\ OnlyCall /\ PagedLast) =>
        LET offset == (NormPage - 1) * NormPerPage
            hi == IF offset + NormPerPage < nrows THEN offset + NormPerPage ELSE nrows
        IN  fetched.ids = IdRange(offset + 1, hi)

\* C13: Cursor(cursor, direction, field) with an empty cursor only sets
\* LIMIT 1; otherwise with direction "prev" it adds field < cursor and the
\* order field DESC, and with every other direction field > cursor and the
\* ascending order on field; in both cases the limit is 1 and the cursor is
\* the predicate's argument.
C13_CursorStatement ==
    CursorLast =>
        LET c == LastCall
            b == c.before
        IN  IF c.cursor = <<>>
            THEN sel = [b EXCEPT !.limit = 1]
            ELSE /\ sel.limit = 1
                 /\ sel.offset = b.offset
                 /\ sel.where = Append(b.where,
                                       [field |-> c.field,
                                        op |-> IF c.direction = "prev" THEN "<" ELSE ">",
                                        arg |-> c.cursor])
                 /\ sel.orderBy = Append(b.orderBy,
                                         IF c.direction = "prev"
                                         THEN <<c.field, "DESC">>
                                         ELSE <<c.field>>)

C13_Witness ==
    /\ CursorLast
    /\ LastCall.cursor = <<"2">>
    /\ LastCall.direction = "invalid"
    /\ sel.where = <<[field |-> "id", op |-> ">", arg |-> <<"2">>]>>

\* C14: over rows with ids 1..N a cursor query returns at most one row: for
\* "prev" the row with the largest id below the cursor, for every other
\* direction the row with the smallest id above it, no row when there is
\* none, and the row with id 1 for the empty cursor.
C14_CursorRows ==
    (fetched.done /\ OnlyCall /\ CursorLast) =>
        LET c == LastCall
            below == {id \in 1..nrows : id < Atoi(c.cursor)}
            above == {id \in 1..nrows : id > Atoi(c.cursor)}
            pick == IF c.cursor = <<>> THEN (IF nrows >= 1 THEN {1} ELSE {})
                    ELSE IF c.direction = "prev"
                    THEN {id \in below : \A o \in below : o <= id}
                    ELSE {id \in above : \A o \in above : id <= o}
        IN  /\ Len(fetched.ids) <= 1
            /\ {fetched.ids[i] : i \in 1..Len(fetched.ids)} = pick

C14_Witness ==
    /\ fetched.done /\ OnlyCall /\ CursorLast
    /\ nrows = 5
    /\ LastCall.cursor = <<"4">>
    /\ LastCall.direction = "prev"
    /\ fetched.ids = <<3>>

(***************************************************************************)
(* Relation loader: properties.                                            *)
(***************************************************************************)
GetReturned == relPc = "returned" /\ returned.given

\* the rows of table tbl whose column fk holds the id of the parent row
Matching(tbl, fk, parent) ==
    IF "id" \in DOMAIN parent
    THEN SelectSeq(relDb[tbl], LAMBDA row : row[fk] = parent["id"].n)
    ELSE <<>>

\* every parent carries the key of a to-many relation, with a slice of its
\* matching child rows, at this level and at the levels below
RECURSIVE ShapeOK(_, _, _)
ShapeOK(parents, chain, fk) ==
    IF chain = <<>> THEN TRUE
    ELSE LET rel == chain[1]
             key == RelationKey(rel)
         IN  /\ rel.type # OneToOne =>
                   \A i \in 1..Len(parents) :
                       LET p == heap[parents[i]]
                       IN  /\ key \in DOMAIN p
                           /\ p[key].k = "slice"
                           /\ Len(p[key].refs) = Len(Matching(rel.table, fk, p))
                           /\ \A j \in 1..Len(p[key].refs) :
                                 heap[p[key].refs[j]][fk].n = p["id"].n
             /\ ShapeOK(AllChildRecords(heap, parents, key), Tail(chain),
                        ForeignColumn(rel.table))

\* C15: after Get with a one-to-many or many-to-many relation every parent
\* row, at the root and at every nested level, carries the relation key, and
\* its value is the sequence of the matching child rows (empty when there is
\* none, never absent and never nil).
C15_RelationKeyPresent ==
    GetReturned =>
        \A i \in 1..Len(getArgs.includes) :
            ShapeOK(returned.rows, getArgs.includes[i], ForeignColumn("users"))

\* reading a key of a Go map: nil when the key is absent
Lookup(row, key) == IF key \in DOMAIN row THEN row[key] ELSE NilValue

\* the row at reference r holds the columns of the database row dbRow
SameRow(r, dbRow) ==
    \A c \in DOMAIN heap[r] \cap DOMAIN dbRow :
        heap[r][c].k = "scalar" /\ heap[r][c].n = dbRow[c]

\* the relations of the includes that attach to the root rows, one-to-one
RootOneToOne == {i \in 1..Len(getArgs.includes) : getArgs.includes[i][1].type = OneToOne}

FindArgs ==
    [rootCols |-> <<"id", "name">>,
     includes |-> <<<<RelPosts(OneToMany, <<"id", "title">>),
                      RelComments(OneToMany, <<"id", "body">>)>>>>]

FindReturned == GetReturned /\ relDb = DataFind /\ getArgs = FindArgs

\* the number of comments reachable from post number j of the root row number i
CommentsOf(i, j) ==
    Len(Lookup(heap[Lookup(heap[returned.rows[i]], "posts").refs[j]], "comments").refs)

\* C17 as stated: user 1 has two posts, the first with two comments and the
\* second with none.
C17_AsStated ==
    FindReturned =>
        /\ Len(Lookup(heap[returned.rows[1]], "posts").refs) = 2
        /\ CommentsOf(1, 1) = 2
        /\ CommentsOf(1, 2) = 0

\* C17: loading users -> posts -> comments with posts 1,2,3 of users 1,1,2
\* and comments 1,2,3 of posts 1,1,2 gives user 1 two posts, the first with
\* two comments and the second with one (comment 3), user 2 one post without
\* comments; the comments are reachable from the rows Get returned.
C17_NestedPropagation ==
    FindReturned =>
        /\ Len(Lookup(heap[returned.rows[1]], "posts").refs) = 2
        /\ CommentsOf(1, 1) = 2
        /\ CommentsOf(1, 2) = 1
        /\ heap[Lookup(heap[Lookup(heap[returned.rows[1]], "posts").refs[2]],
                       "comments").refs[1]]["id"].n = 3
        /\ Len(Lookup(heap[returned.rows[2]], "posts").refs) = 1
        /\ "comments" \in DOMAIN heap[Lookup(heap[returned.rows[2]], "posts").refs[1]]
        /\ CommentsOf(2, 1) = 0

C17_Witness == FindReturned /\ Len(queries) = 2 /\ queries[2].level = 2

\* C18: a relation load ends, by returning or by panicking; a loadRelation
\* call with an empty parent-ID list issues no query and starts no call for
\* the levels below, no query is ever issued for an empty list, and no call
\* is made past the last Rel of a chain.
C18_LoadTerminates ==
    /\ (relPc = "loading") ~> (relPc \in {"returned", "panicked"})
    /\ [](\A i \in 1..Len(queries) : queries[i].ids # <<>>)
    /\ [](\A i \in 1..Len(work) : work[i].rel # <<>>)
    /\ [][(relPc = "loading" /\ work # <<>> /\ Head(work).parentIDs = <<>>)
            => (queries' = queries /\ work' = Tail(work))]_vars

C18_Witness ==
    /\ GetReturned
    /\ returned.rows # <<>>
    /\ getArgs.includes # <<>>
    /\ queries = <<>>

\* C19: when a child query of a relation load fails, Get panics and returns
\* no rows to its caller, also when an earlier relation was already attached.
C19_FailureAborts ==
    (\E i \in 1..Len(queries) : ~queries[i].ok) =>
        /\ relPc = "panicked"
        /\ ~returned.given
        /\ work = <<>>

C19_Witness ==
    /\ relPc = "panicked"
    /\ Len(queries) = 2
    /\ queries[1].ok /\ queries[1].level = 1
    /\ ~queries[2].ok /\ queries[2].level = 1
    /\ \E r \in 1..Len(heap) : "posts" \in DOMAIN heap[r]
    /\ ~returned.given

(***************************************************************************)
(* Connection registry: properties.                                        *)
(***************************************************************************)
Removed == lastDM.op = "Remove"

\* C20 as stated: after Remove of a registered name the name is no longer
\* found; Remove of an unregistered name fails with the connection-not-found
\* error and changes nothing.
C20_AsStated ==
    Removed =>
        IF lastDM.found
        THEN /\ lastDM.events = <<"close", "delete">>
             /\ lastDM.name \notin DOMAIN connections
        ELSE /\ lastDM.err = ErrConnectionNotFound
             /\ connections = lastDM.before
             /\ closed = lastDM.closedBefore

\* C20: Remove of a registered name closes the connection's handle first;
\* when Close succeeds the entry is then deleted and the name is no longer
\* found, when Close fails Remove returns that error and the entry stays;
\* Remove of an unregistered name fails with the connection-not-found error
\* and changes nothing.
C20_RemoveClosesThenDeletes ==
    Removed =>
        IF lastDM.found
        THEN /\ lastDM.events # <<>> /\ lastDM.events[1] = "close"
             /\ lastDM.before[lastDM.name] \in closed
             /\ IF lastDM.err = Nil
                THEN /\ lastDM.events = <<"close", "delete">>
                     /\ lastDM.name \notin DOMAIN connections
                     /\ \A n \in DOMAIN lastDM.before \ {lastDM.name} :
                           n \in DOMAIN connections /\ connections[n] = lastDM.before[n]
                ELSE /\ lastDM.events = <<"close">>
                     /\ connections = lastDM.before
        ELSE /\ lastDM.err = ErrConnectionNotFound
             /\ lastDM.events = <<>>
             /\ connections = lastDM.before
             /\ closed = lastDM.closedBefore

C20_Witness ==
    /\ Removed
    /\ lastDM.found
    /\ lastDM.err = Nil
    /\ DOMAIN lastDM.before = ConnNames
    /\ DOMAIN connections = ConnNames \ {lastDM.name}

\* a step that is a kind-setting call with some arguments
KindSetting ==
    \/ \E columns \in SelectArgs : QbSelect(columns)
    \/ \E a \in InsertArgs : QbInsert(a.cols, a.values)
    \/ \E a \in UpdateArgs : QbUpdate(a.cols, a.values)
    \/ QbDelete

\* the statement of q carries no predicate, grouping or argument of a predicate
NoPredicate(q) ==
    /\ q.builder.where = <<>> /\ q.builder.having = <<>> /\ q.builder.groupBy = <<>>
    /\ ~Build(q).out.panic =>
          /\ ~Contains(Build(q).out.sql, "WHERE")
          /\ ~Contains(Build(q).out.sql, "HAVING")

\* a step that is Where with some condition while the statement kind is INSERT
WhereOnInsert ==
    /\ qb.queryType = "INSERT"
    /\ \/ \E c \in WhereInputs : QbWhere(c)
       \/ \E comb \in Combinators, exprs \in CombinatorArgs : QbWhereCombinator(comb, exprs)

\* C30: Select, Insert, Update and Delete start a fresh statement: what is
\* built after one of them carries no predicate added before it; and a Where
\* while the statement kind is INSERT leaves the statement as it was.
C30_KindSettingStartsFresh ==
    [][/\ KindSetting => NoPredicate(qb')
       /\ WhereOnInsert => Build(qb').out = Build(qb).out]_vars

\* the elements of a sequence, as a set
Elems(q) == {q[i] : i \in 1..Len(q)}

RECURSIVE SumLen(_)
SumLen(chains) == IF chains = <<>> THEN 0 ELSE Len(Head(chains)) + SumLen(Tail(chains))

\* the include a query belongs to: the number of level-1 queries up to it
RunOf(i) == Cardinality({j \in 1..i : queries[j].level = 1})

\* the Rel a query loads
RelOf(i) == getArgs.includes[RunOf(i)][queries[i].level]

\* the ids of the rows of the database that the query q returned and that
\* loadRelation attached to a parent: all of them for a to-many relation, the
\* first one of each parent for a one-to-one relation
AttachedIds(q, rel) ==
    LET rows == relDb[q.table]
        hits(pid) == {j \in 1..Len(rows) : rows[j][q.fk] = pid}
    IN  IF rel.type = OneToOne
        THEN {rows[CHOOSE j \in hits(pid) : \A k \in hits(pid) : j <= k].id :
                  pid \in {x \in Elems(q.ids) : hits(x) # {}}}
        ELSE {rows[j].id : j \in UNION {hits(pid) : pid \in Elems(q.ids)}}

\* C28: Get issues, besides the root SELECT, exactly one child SELECT for
\* each relation level of each include that receives a non-empty parent-ID
\* list, filtered by the foreign key IN all parent ids of that level; the
\* number of queries is bounded by the number of relation levels, whatever
\* the number of parent rows.
C28_OneQueryPerLevel ==
    GetReturned =>
        LET rootIDs == IdsOf(heap, returned.rows)
            includes == getArgs.includes
        IN  /\ Len(queries) <= SumLen(includes)
            /\ Cardinality({i \in 1..Len(queries) : queries[i].level = 1})
                  = IF rootIDs = <<>> THEN 0 ELSE Len(includes)
            /\ \A i \in 1..Len(queries) :
                  LET q == queries[i]
                  IN  /\ q.table = RelOf(i).table
                      /\ q.ids # <<>>
                      /\ Cardinality(Elems(q.ids)) = Len(q.ids)
                      /\ q.level = 1 =>
                            q.ids = rootIDs /\ q.fk = ForeignColumn("users")
                      /\ q.level > 1 =>
                            /\ i > 1 /\ queries[i - 1].level = q.level - 1
                            /\ q.fk = ForeignColumn(queries[i - 1].table)
                            /\ Elems(q.ids) = AttachedIds(queries[i - 1],
                                                          includes[RunOf(i)][q.level - 1])
                      /\ (/\ q.level < Len(includes[RunOf(i)])
                          /\ Contains(RelOf(i).cols, "id")
                          /\ AttachedIds(q, RelOf(i)) # {})
                            => /\ i < Len(queries)
                               /\ queries[i + 1].level = q.level + 1

\* a load of two levels over three users, two of them with posts: two queries
C28_Witness ==
    /\ GetReturned
    /\ Len(returned.rows) = 3
    /\ Len(getArgs.includes) = 1 /\ Len(getArgs.includes[1]) = 2
    /\ Len(queries) = 2
    /\ queries[1].ids = <<1, 2, 3>>
    /\ Len(queries[2].ids) >= 2

\* a loadRelation call whose child query succeeded
ChildQueryDone ==
    /\ Len(queries') = Len(queries) + 1
    /\ queries'[Len(queries')].ok

\* the rows the child query of this step returned, in the order of the query
NewRefs == [i \in 1..(Len(heap') - Len(heap)) |-> Len(heap) + i]

\* the parents of this step whose id is the foreign key of the child row r
ParentsOf(r) ==
    {p \in Elems(Head(work).parents) :
        /\ "id" \in DOMAIN heap'[p]
        /\ heap'[p]["id"].n = heap'[r][Head(work).fk].n}

\* the parents of this step that hold the child row r under the relation key
HoldersOf(r) ==
    {p \in Elems(Head(work).parents) :
        /\ RelationKey(Head(work).rel[1]) \in DOMAIN heap'[p]
        /\ Contains(heap'[p][RelationKey(Head(work).rel[1])].refs, r)}

\* the child rows of this step that belong to the parent p, in query order
ChildrenOf(p) == SelectSeq2(NewRefs, {r \in Elems(NewRefs) : p \in ParentsOf(r)})

\* C29 as stated: every child row the query of a level returned is attached
\* to exactly the parents whose id is its foreign key, whatever the relation
\* type, and none is dropped.
C29_AsStated ==
    [][ChildQueryDone =>
          \A r \in Elems(NewRefs) : HoldersOf(r) = ParentsOf(r) /\ ParentsOf(r) # {}]_vars

\* C29: for a one-to-many or many-to-many relation every child row the query
\* of a level returned is attached to exactly the parents whose id is its
\* foreign key, once, and each parent's sequence is its children in the order
\* of the query; for a one-to-one relation each parent holds the first of its
\* children and the later ones are attached to no parent.
C29_GroupingCorrect ==
    [][ChildQueryDone =>
          LET f == Head(work)
              rel == f.rel[1]
              key == RelationKey(rel)
          IN  /\ [i \in 1..Len(NewRefs) |-> heap'[NewRefs[i]]]
                    = ChildRows(relDb, rel.table,
                                IF Contains(rel.cols, f.fk) THEN rel.cols
                                ELSE Append(rel.cols, f.fk),
                                f.fk, f.parentIDs)
              /\ \A r \in Elems(NewRefs) : Cardinality(ParentsOf(r)) = 1
              /\ \A p \in Elems(f.parents) :
                    /\ key \in DOMAIN heap'[p]
                    /\ IF rel.type = OneToOne
                       THEN heap'[p][key] = IF ChildrenOf(p) = <<>> THEN NilValue
                                            ELSE RowValue(ChildrenOf(p)[1])
                       ELSE heap'[p][key] = SliceValue(ChildrenOf(p))
              /\ rel.type # OneToOne =>
                    \A r \in Elems(NewRefs) : HoldersOf(r) = ParentsOf(r)
              /\ rel.type = OneToOne =>
                    \A r \in Elems(NewRefs) :
                        HoldersOf(r) = {p \in ParentsOf(r) : ChildrenOf(p)[1] = r}]_vars

\* posts 1 and 2 attached to user 1 in that order, post 3 to user 2, none to user 3
C29_Witness ==
    /\ Len(queries) >= 1 /\ queries[1].ok /\ queries[1].table = "posts"
    /\ Len(heap) >= 6
    /\ {"posts", "id"} \subseteq DOMAIN heap[1]
    /\ heap[1]["posts"] = SliceValue(<<4, 5>>)
    /\ heap[4]["id"].n = 1 /\ heap[5]["id"].n = 2
    /\ heap[2]["posts"] = SliceValue(<<6>>)
    /\ heap[3]["posts"] = SliceValue(<<>>)

(***************************************************************************)
(* One Connection used by several goroutines: properties.                  *)
(***************************************************************************)
\* the goroutines whose begin succeeded and that have not ended it since
Holders == {g \in Callers : workers[g].holds # NoTx}

\* C26: of two goroutines that call begin on the same idle Connection at
\* most one succeeds; the Connection never has two underlying transactions
\* open at once, and every transaction that was opened is the one held in
\* Connection.tx (or is just being stored there).
C26_OneBeginWins ==
    /\ Cardinality(Holders) <= 1
    /\ Cardinality(DOMAIN txRows) <= 1
    /\ \A id \in DOMAIN txRows :
          \/ tx = id
          \/ \E g \in Callers : workers[g].pc = "Begin_Store" /\ workers[g].opened = id

\* C27: a statement executed by a goroutine through its own QueryBuilder
\* while a transaction begun by another goroutine is Active on the same
\* Connection runs on the ambient handle, and no rollback discards it.
C27_ForeignStatementIsAmbient ==
    /\ (lastExec.caller # NoCaller
          /\ lastExec.activeOwner \notin {NoCaller, lastExec.caller})
         => lastExec.handle = "db"
    /\ ~undone

(***************************************************************************)
(* Connection registry shared by several goroutines: properties.           *)
(***************************************************************************)
HoldsLock(g) == mutex.writer = g
HoldsRLock(g) == g \in mutex.readers

\* the steps that read, iterate or write the name-to-connection map
ReadsMap(g) == callers[g].pc \in {"Get_Read", "Remove_Read", "Range_Init", "Range_Next"}
AccessesMap(g) == ReadsMap(g) \/ Writing(g)

\* a goroutine that waits for the lock and cannot get it
Blocked(g) ==
    \/ callers[g].pc \in {"Add_Lock", "Remove_Lock"} /\ ~CanLock(mutex)
    \/ callers[g].pc \in {"Get_RLock", "All_RLock"} /\ ~CanRLock(mutex)

\* C22: in every interleaving of Add, Get, Remove, All and RemoveAll each
\* read or iteration of the map happens with the lock held, each write with
\* the write lock held, no goroutine accesses the map while another one is
\* writing it, and the goroutines inside a method are never all blocked.
C22_RegistryLockProtectsMap ==
    /\ ~fatal
    /\ \A g \in Callers :
          /\ ReadsMap(g) => HoldsLock(g) \/ HoldsRLock(g)
          /\ Writing(g) => HoldsLock(g)
          /\ Writing(g) => \A h \in Callers \ {g} : ~AccessesMap(h)
    /\ (\E g \in Callers : callers[g].pc # "idle")
          => \E g \in Callers : callers[g].pc # "idle" /\ ~Blocked(g)

RemovedAll == lastDM.op = "RemoveAll"

\* the position in the visiting order of the first entry whose Close fails
\* (0 when every Close succeeds)
FirstFailure ==
    LET bad == {i \in 1..Len(lastDM.order) :
                   ~lastDM.ok[lastDM.before[lastDM.order[i]]]}
    IN  IF bad = {} THEN 0 ELSE CHOOSE i \in bad : \A j \in bad : i <= j

\* C21: RemoveAll returns nil and leaves the registry empty when every Close
\* succeeds; when closing an entry fails it stops at that entry and returns
\* the error, the entries visited before it stay removed, and the failing
\* entry and the entries not yet visited stay registered.
C21_RemoveAllStopsAtFailure ==
    RemovedAll =>
        LET order == lastDM.order
            i == FirstFailure
        IN  IF i = 0
            THEN /\ lastDM.err = Nil
                 /\ connections = <<>>
                 /\ lastDM.visited = Len(order)
                 /\ \A n \in DOMAIN lastDM.before : lastDM.before[n] \in closed
            ELSE /\ lastDM.err = ErrDriver
                 /\ lastDM.visited = i
                 /\ \A j \in 1..(i - 1) : order[j] \notin DOMAIN connections
                 /\ \A j \in i..Len(order) :
                       /\ order[j] \in DOMAIN connections
                       /\ connections[order[j]] = lastDM.before[order[j]]
                 /\ DOMAIN connections = {order[j] : j \in i..Len(order)}

\* a RemoveAll over three entries whose second Close failed
C21_Witness ==
    /\ RemovedAll
    /\ Len(lastDM.order) = 3
    /\ FirstFailure = 2
    /\ lastDM.err = ErrDriver
    /\ Cardinality(DOMAIN connections) = 2
====
